---- MODULE Spec2Model ----
(***************************************************************************)
(* A model of the SQLite dialect driver of the orm package                 *)
(* (src/orm/sqlite.go), of the row fetching of the orm package             *)
(* (src/example/user/api.go, the part that is package orm) and of its      *)
(* options (src/orm/options.go).                                           *)
(*                                                                         *)
(* SQL text is modelled as it is in the program: a sequence of characters  *)
(* (one-character strings).  The regular expressions of the driver and its *)
(* DDL tokenizer work on these sequences character by character.           *)
(***************************************************************************)
EXTENDS Integers, Sequences, FiniteSets, TLC

\* With(v, LAMBDA x : e) is e with x bound to v: a local variable
With(v, Body(_)) == Body(v)

\* ------------------------------------------------------------------------
\* Text: the Go string operations the driver uses
\* ------------------------------------------------------------------------

Lower == <<"a","b","c","d","e","f","g","h","i","j","k","l","m",
           "n","o","p","q","r","s","t","u","v","w","x","y","z">>

Upper == <<"A","B","C","D","E","F","G","H","I","J","K","L","M",
           "N","O","P","Q","R","S","T","U","V","W","X","Y","Z">>

Digits == <<"0","1","2","3","4","5","6","7","8","9">>

\* the backquote character (a TLA+ string cannot hold it)
BT == "backquote"

Range(s) == { s[i] : i \in DOMAIN s }

\* strings.ToUpper, one character
ToUpperChar(c) ==
    IF \E i \in DOMAIN Lower : Lower[i] = c
    THEN Upper[CHOOSE i \in DOMAIN Lower : Lower[i] = c]
    ELSE c

ToUpper(s) == [i \in 1..Len(s) |-> ToUpperChar(s[i])]

\* the regexp class [\w\d]
IsWord(c) == c \in Range(Lower) \cup Range(Upper) \cup Range(Digits) \cup {"_"}

\* unicode.IsSpace on the characters a DDL text holds
IsSpace(c) == c \in {" ", "\t", "\n", "\r"}

\* s[from..] starts with p
MatchesAt(s, from, p) ==
    /\ from >= 1
    /\ from + Len(p) - 1 <= Len(s)
    /\ \A k \in 1..Len(p) : s[from + k - 1] = p[k]

HasPrefix(s, p) == MatchesAt(s, 1, p)

HasSuffix(s, p) == Len(p) <= Len(s) /\ MatchesAt(s, Len(s) - Len(p) + 1, p)

Contains(s, p) == \E i \in 1..(Len(s) + 1) : MatchesAt(s, i, p)

TrimSuffix(s, p) == IF HasSuffix(s, p) THEN SubSeq(s, 1, Len(s) - Len(p)) ELSE s

\* strings.TrimSpace
TrimSpace(s) ==
    IF \A i \in 1..Len(s) : IsSpace(s[i]) THEN << >>
    ELSE LET first == CHOOSE i \in 1..Len(s) :
                          ~IsSpace(s[i]) /\ \A k \in 1..(i - 1) : IsSpace(s[k])
             last  == CHOOSE i \in 1..Len(s) :
                          ~IsSpace(s[i]) /\ \A k \in (i + 1)..Len(s) : IsSpace(s[k])
         IN  SubSeq(s, first, last)

\* strings.Join
RECURSIVE Join(_, _)
Join(list, sep) ==
    IF Len(list) = 0 THEN << >>
    ELSE IF Len(list) = 1 THEN list[1]
    ELSE list[1] \o sep \o Join(Tail(list), sep)

\* ------------------------------------------------------------------------
\* Fields of the desired schema and their SQLite types
\* ------------------------------------------------------------------------

\* no error, no quote character, no value
Nil == "nil"

\* a pointer (*int64, *bool) of FieldOptions: << >> is the nil pointer, <<v>>
\* points to v (util.Int64, util.Bool)
NilPtr == << >>

Ptr(v) == <<v>>

\* util.Int64Value, util.BoolValue: the value behind a pointer, zero for nil
Int64Value(p) == IF p = NilPtr THEN 0 ELSE p[1]

BoolValue(p) == IF p = NilPtr THEN FALSE ELSE p[1]

\* Sqlite.driverDataTypeOf
driverDataTypeOf(f) ==
    CASE f.dataType = "Bool" -> <<"n","u","m","e","r","i","c">>
      [] f.dataType \in {"Int", "Uint"} ->
            IF f.autoIncrement /\ ~f.primaryKey
            THEN <<"i","n","t","e","g","e","r"," ","P","R","I","M","A","R","Y"," ",
                   "K","E","Y"," ","A","U","T","O","I","N","C","R","E","M","E","N","T">>
            ELSE <<"i","n","t","e","g","e","r">>
      [] f.dataType = "Float" -> <<"r","e","a","l">>
      [] f.dataType = "String" -> <<"t","e","x","t">>
      [] f.dataType = "Time" -> <<"d","a","t","e","t","i","m","e">>
      [] f.dataType = "Bytes" -> <<"b","l","o","b">>
      [] OTHER -> f.dataType

\* Sqlite.FullDataTypeOf (the field's driverDataType is what ParseField set:
\* driverDataTypeOf of the field)
FullDataTypeOf(field) ==
    driverDataTypeOf(field)
      \o (IF field.notNull # NilPtr /\ field.notNull[1]
          THEN <<" ","N","O","T"," ","N","U","L","L">> ELSE << >>)
      \o (IF field.unique # NilPtr /\ field.unique[1]
          THEN <<" ","U","N","I","Q","U","E">> ELSE << >>)
      \o (IF field.defaultValue # << >>
          THEN <<" ","D","E","F","A","U","L","T"," ">> \o field.defaultValue ELSE << >>)

\* tableFieldLookup: whether the desired schema has a field of that name, and
\* the field (the first of that name)
HasField(sample, name) == \E i \in 1..Len(sample) : sample[i].name = name

tableFieldLookup(sample, name) ==
    sample[CHOOSE i \in 1..Len(sample) :
               sample[i].name = name /\ \A k \in 1..(i - 1) : sample[k].name # name]

\* ------------------------------------------------------------------------
\* The regular expressions of the driver
\* ------------------------------------------------------------------------

\* the alternation (`|'|"| )
QuoteOrSpace == {BT, "'", "\"", " "}

\* AlterColumn's expression  (`|'|"| )name(`|'|"| ) .*?,  matched at position p:
\* the position of the comma that ends the match, 0 when there is no match.
\* ".*?" is lazy and "." matches no newline: the match ends at the first comma.
AlterRegMatchEnd(s, p, name) ==
    LET n  == Len(name)
        q0 == p + n + 3
        IsEnd(q) == s[q] = "," /\ \A k \in q0..(q - 1) : s[k] \notin {",", "\n"}
    IN  IF /\ p >= 1
           /\ p + n + 2 <= Len(s)
           /\ s[p] \in QuoteOrSpace
           /\ MatchesAt(s, p + 1, name)
           /\ s[p + n + 1] \in QuoteOrSpace
           /\ s[p + n + 2] = " "
           /\ \E q \in q0..Len(s) : IsEnd(q)
        THEN CHOOSE q \in q0..Len(s) : IsEnd(q)
        ELSE 0

\* recreateTable's expression  " ('|`|"| )table('|`|"| ) "  matched at position
\* p: the position of the last character of the match, 0 when there is none
TableRegMatchEnd(s, p, table) ==
    LET n == Len(table)
    IN  IF /\ p >= 1
           /\ p + n + 3 <= Len(s)
           /\ s[p] = " "
           /\ s[p + 1] \in QuoteOrSpace
           /\ MatchesAt(s, p + 2, table)
           /\ s[p + n + 2] \in QuoteOrSpace
           /\ s[p + n + 3] = " "
        THEN p + n + 3
        ELSE 0

\* DropColumn's expression  (`|'|"| |\[)name(`|'|"| |\]) .*?,  matched at
\* position p: the position of the comma that ends the match, 0 when there is
\* no match
DropRegMatchEnd(s, p, name) ==
    LET n  == Len(name)
        q0 == p + n + 3
        IsEnd(q) == s[q] = "," /\ \A k \in q0..(q - 1) : s[k] \notin {",", "\n"}
    IN  IF /\ p >= 1
           /\ p + n + 2 <= Len(s)
           /\ s[p] \in QuoteOrSpace \cup {"["}
           /\ MatchesAt(s, p + 1, name)
           /\ s[p + n + 1] \in QuoteOrSpace \cup {"]"}
           /\ s[p + n + 2] = " "
           /\ \E q \in q0..Len(s) : IsEnd(q)
        THEN CHOOSE q \in q0..Len(s) : IsEnd(q)
        ELSE 0

RegMatchEnd(reg, s, p, name) ==
    IF reg = "alter" THEN AlterRegMatchEnd(s, p, name)
    ELSE IF reg = "drop" THEN DropRegMatchEnd(s, p, name)
    ELSE TableRegMatchEnd(s, p, name)

\* One step of the left-to-right scan of regexp.ReplaceAllString, at position
\* i of s.  st is [reg, name, repl, out, upto]: out the text built so far,
\* upto the end of the last match (positions up to it are consumed).
replaceStep(s, i, st) ==
    IF i <= st.upto THEN st
    ELSE LET e == RegMatchEnd(st.reg, s, i, st.name)
         IN  IF e > 0
             THEN [st EXCEPT !.out = @ \o st.repl, !.upto = e]
             ELSE [st EXCEPT !.out = @ \o <<s[i]>>]

\* The escaped quote, a faulty variant: the quote is written once to the
\* clause text and the character after it is skipped
escapedQuoteKeepsOne(st, c) ==
    [st EXCEPT !.buf = @ \o <<c>>, !.skip = TRUE]

\* The branch of the tokenizer loop for a quote character c followed by the
\* same character: c is written to the clause text, the next character is
\* skipped (i++), and the write at the end of the iteration adds c once more.
\* bracketLevel and quote are not touched.
escapedQuote(st, c) ==
    [st EXCEPT !.buf = @ \o <<c, c>>, !.skip = TRUE]

\* The test for the end of a clause, a faulty variant: the bracket level is
\* not looked at
isSeparatorAnyLevel(st, c) ==
    st.quote = Nil /\ c = ","

\* The test of the tokenizer loop for the end of a clause: no quote is open
\* (quote == 0), the bracket level is 0 and the character is a comma
isSeparator(st, c) ==
    st.quote = Nil /\ st.bracketLevel = 0 /\ c = ","

\* One iteration of the tokenizer loop, a faulty variant: a comma at bracket
\* level 0 ends the clause whether or not a quote is open
parseStepQuoteBlind(body, i, st) ==
    IF st.err THEN st
    ELSE IF st.skip THEN [st EXCEPT !.skip = FALSE]
    ELSE
      LET c    == body[i]
          next == IF i + 1 <= Len(body) THEN body[i + 1] ELSE Nil
      IN  IF c \in {"'", "\"", BT}
          THEN IF c = next
               THEN escapedQuote(st, c)
               ELSE IF st.quote # Nil
               THEN [st EXCEPT !.quote = Nil, !.buf = @ \o <<c>>]
               ELSE [st EXCEPT !.quote = c, !.buf = @ \o <<c>>]
          ELSE IF st.quote = Nil /\ c = "("
          THEN [st EXCEPT !.bracketLevel = @ + 1, !.buf = @ \o <<c>>]
          ELSE IF st.quote = Nil /\ c = ")"
          THEN IF st.bracketLevel - 1 < 0
               THEN [st EXCEPT !.bracketLevel = @ - 1, !.err = TRUE]
               ELSE [st EXCEPT !.bracketLevel = @ - 1, !.buf = @ \o <<c>>]
          ELSE IF st.bracketLevel = 0 /\ c = ","
          THEN [st EXCEPT !.fields = Append(@, TrimSpace(st.buf)), !.buf = << >>]
          ELSE [st EXCEPT !.buf = @ \o <<c>>]

\* One iteration of the tokenizer loop of sqliteParseDDL, at position i of the
\* body.  st is [bracketLevel, quote, buf, fields, err, skip]: err is set by
\* the loop's "unbalanced brackets" return (the later characters are then not
\* read), skip by the i++ of an escaped quote (the next character is not read,
\* it is in buf already).
parseStep(body, i, st) ==
    IF st.err THEN st
    ELSE IF st.skip THEN [st EXCEPT !.skip = FALSE]
    ELSE
      LET c    == body[i]
          next == IF i + 1 <= Len(body) THEN body[i + 1] ELSE Nil
      IN  IF c \in {"'", "\"", BT}
          THEN IF c = next
               THEN escapedQuote(st, c)
               ELSE IF st.quote # Nil
               THEN [st EXCEPT !.quote = Nil, !.buf = @ \o <<c>>]
               ELSE [st EXCEPT !.quote = c, !.buf = @ \o <<c>>]
          ELSE IF st.quote = Nil /\ c = "("
          THEN [st EXCEPT !.bracketLevel = @ + 1, !.buf = @ \o <<c>>]
          ELSE IF st.quote = Nil /\ c = ")"
          THEN IF st.bracketLevel - 1 < 0
               THEN [st EXCEPT !.bracketLevel = @ - 1, !.err = TRUE]
               ELSE [st EXCEPT !.bracketLevel = @ - 1, !.buf = @ \o <<c>>]
          ELSE IF isSeparator(st, c)
          THEN [st EXCEPT !.fields = Append(@, TrimSpace(st.buf)), !.buf = << >>]
          ELSE [st EXCEPT !.buf = @ \o <<c>>]

StringQuotes == {"'", "\"", BT}

\* One step of the database's own split of a CREATE TABLE body at its
\* top-level commas: a quoted region ends at the quote character that opened
\* it, a doubled quote inside it is an escaped quote.  st is
\* [depth, inQuote, cur, clauses, err, skip].
dbSplitStep(body, i, st) ==
    IF st.err THEN st
    ELSE IF st.skip THEN [st EXCEPT !.skip = FALSE, !.cur = @ \o <<body[i]>>]
    ELSE
      LET c == body[i]
      IN  IF st.inQuote # Nil
          THEN IF c = st.inQuote /\ i + 1 <= Len(body) /\ body[i + 1] = c
               THEN [st EXCEPT !.cur = @ \o <<c>>, !.skip = TRUE]
               ELSE [st EXCEPT !.cur = @ \o <<c>>,
                               !.inQuote = IF c = st.inQuote THEN Nil ELSE @]
          ELSE IF c \in StringQuotes THEN [st EXCEPT !.cur = @ \o <<c>>, !.inQuote = c]
          ELSE IF c = "(" THEN [st EXCEPT !.cur = @ \o <<c>>, !.depth = @ + 1]
          ELSE IF c = ")"
          THEN IF st.depth = 0 THEN [st EXCEPT !.err = TRUE]
               ELSE [st EXCEPT !.cur = @ \o <<c>>, !.depth = @ - 1]
          ELSE IF c = "," /\ st.depth = 0
          THEN [st EXCEPT !.clauses = Append(@, TrimSpace(st.cur)), !.cur = << >>]
          ELSE [st EXCEPT !.cur = @ \o <<c>>]

\* a scan of text s from position lo to position hi, one step per position in
\* ascending order, from state st
ScanStep(kind, s, i, st) ==
    CASE kind = "replace" -> replaceStep(s, i, st)
      [] kind = "parse"   -> parseStep(s, i, st)
      [] kind = "dbSplit" -> dbSplitStep(s, i, st)

RECURSIVE Scan(_, _, _, _, _)
Scan(kind, s, lo, hi, st) ==
    IF lo > hi THEN st
    ELSE IF lo = hi THEN ScanStep(kind, s, lo, st)
    ELSE LET mid  == (lo + hi) \div 2
             left == Scan(kind, s, lo, mid, st)
         IN  IF DOMAIN left = DOMAIN st THEN Scan(kind, s, mid + 1, hi, left) ELSE left

dbSplit(body) ==
    LET st == Scan("dbSplit", body, 1, Len(body),
                   [depth |-> 0, inQuote |-> Nil, cur |-> << >>, clauses |-> << >>,
                    err |-> FALSE, skip |-> FALSE])
    IN  [err |-> st.err \/ st.depth # 0 \/ st.inQuote # Nil,
         clauses |-> Append(st.clauses, TrimSpace(st.cur))]

\* regexp.ReplaceAllString: every match, leftmost first and not overlapping,
\* is replaced by repl (repl holds no "$", so it is taken literally)
ReplaceAllString(reg, s, name, repl) ==
    Scan("replace", s, 1, Len(s),
         [reg |-> reg, name |-> name, repl |-> repl, out |-> << >>, upto |-> 0]).out

\* ------------------------------------------------------------------------
\* The DDL document: sqliteParseDDL, getColumns
\* ------------------------------------------------------------------------

KwCreateTable == <<"C","R","E","A","T","E"," ","T","A","B","L","E"," ">>

IdentQuotes == {"\"", BT}

\* the end of the longest run of [\w\d] characters that starts at p (p - 1
\* when s[p] is no such character)
RECURSIVE WordEnd(_, _)
WordEnd(s, p) ==
    IF p <= Len(s) /\ IsWord(s[p]) THEN WordEnd(s, p + 1) ELSE p - 1

\* the header part  (?i)(CREATE TABLE ["`]?[\w\d]+["`]?)  matched at p: the
\* position of its last character, 0 when there is no match
HeadMatchEnd(s, p) ==
    IF ~MatchesAt(ToUpper(s), p, KwCreateTable) THEN 0
    ELSE LET a  == p + Len(KwCreateTable)
             w  == IF a <= Len(s) /\ s[a] \in IdentQuotes THEN a + 1 ELSE a
             we == WordEnd(s, w)
         IN  IF we < w THEN 0
             ELSE IF we + 1 <= Len(s) /\ s[we + 1] \in IdentQuotes
                  THEN we + 1 ELSE we

\* the optional part  (?: \((.*)\))?  after a header ending at h: the position
\* of the last ")" the greedy ".*" can reach (no newline in between), 0 when
\* the part does not match
BodyMatchEnd(s, h) ==
    LET b == h + 3
        Reach(r) == s[r] = ")" /\ \A k \in b..(r - 1) : s[k] # "\n"
    IN  IF /\ h + 2 <= Len(s)
           /\ s[h + 1] = " "
           /\ s[h + 2] = "("
           /\ \E r \in b..Len(s) : Reach(r)
        THEN CHOOSE r \in b..Len(s) : Reach(r) /\ \A k \in (r + 1)..Len(s) : ~Reach(k)
        ELSE 0

\* sqliteParseDDL: [err, head, fields]
sqliteParseDDL(sql) ==
    IF \A p \in 1..Len(sql) : HeadMatchEnd(sql, p) = 0
    THEN [err |-> TRUE, head |-> << >>, fields |-> << >>]
    ELSE
      LET p    == CHOOSE q \in 1..Len(sql) :
                      HeadMatchEnd(sql, q) # 0 /\ \A k \in 1..(q - 1) : HeadMatchEnd(sql, k) = 0
      IN  With(HeadMatchEnd(sql, p), LAMBDA h :
          With(BodyMatchEnd(sql, h), LAMBDA r :
          With(IF r = 0 THEN << >> ELSE SubSeq(sql, h + 3, r - 1), LAMBDA body :
          With(Scan("parse", body, 1, Len(body),
                    [bracketLevel |-> 0, quote |-> Nil, buf |-> << >>,
                     fields |-> << >>, err |-> FALSE, skip |-> FALSE]), LAMBDA res :
            IF res.err \/ res.bracketLevel # 0
            THEN [err |-> TRUE, head |-> << >>, fields |-> << >>]
            ELSE [err |-> FALSE,
                  head |-> SubSeq(sql, p, h),
                  fields |-> IF res.buf # << >>
                             THEN Append(res.fields, TrimSpace(res.buf))
                             ELSE res.fields]))))

\* the name that  ^["`]?([\w\d]+)["`]?  captures in a clause, << >> when the
\* expression does not match
LeadingIdent(f) ==
    LET w  == IF Len(f) >= 1 /\ f[1] \in IdentQuotes THEN 2 ELSE 1
        we == WordEnd(f, w)
    IN  IF we < w THEN << >> ELSE SubSeq(f, w, we)

\* whether getColumns skips the clause as a table-level constraint
IsConstraintClause(f) ==
    LET fUpper == ToUpper(f)
    IN  \/ HasPrefix(fUpper, <<"P","R","I","M","A","R","Y"," ","K","E","Y">>)
        \/ HasPrefix(fUpper, <<"C","H","E","C","K">>)
        \/ HasPrefix(fUpper, <<"C","O","N","S","T","R","A","I","N","T">>)

\* sqliteDDL.getColumns
RECURSIVE getColumns(_)
getColumns(clauses) ==
    IF Len(clauses) = 0 THEN << >>
    ELSE LET f == Head(clauses)
         IN  (IF IsConstraintClause(f) \/ LeadingIdent(f) = << >>
              THEN << >>
              ELSE << <<BT>> \o LeadingIdent(f) \o <<BT>> >>)
             \o getColumns(Tail(clauses))

\* sqliteDDL.compile: the header alone when the document has no clause,
\* otherwise "head (clause,clause,...)"
compile(d) ==
    IF Len(d.fields) = 0 THEN d.head
    ELSE d.head \o <<" ", "(">> \o Join(d.fields, <<",">>) \o <<")">>

\* ------------------------------------------------------------------------
\* The database the driver talks to: what SQLite does with the statements
\* the driver executes and the queries it runs.  A database is
\* [tables, indexes]: tables maps a table name to [sql, rows], the CREATE
\* statement the catalog (sqlite_master) keeps and the rows, each row a
\* function from column name to value; indexes is a set of [name, tbl].
\* ------------------------------------------------------------------------

\* the SQL NULL
Null == "NULL"

\* an identifier at position p of a text, quoted or bare: [name, last], last
\* the position of its last character, 0 when there is no identifier
dbIdentAt(s, p) ==
    IF p > Len(s) THEN [name |-> << >>, last |-> 0]
    ELSE IF s[p] \in StringQuotes
    THEN LET we == WordEnd(s, p + 1)
         IN  IF we >= p + 1 /\ we + 1 <= Len(s) /\ s[we + 1] = s[p]
             THEN [name |-> SubSeq(s, p + 1, we), last |-> we + 1]
             ELSE [name |-> << >>, last |-> 0]
    ELSE LET we == WordEnd(s, p)
         IN  IF we >= p THEN [name |-> SubSeq(s, p, we), last |-> we]
             ELSE [name |-> << >>, last |-> 0]

ConstraintWords ==
    { <<"P","R","I","M","A","R","Y">>, <<"C","O","N","S","T","R","A","I","N","T">>,
      <<"C","H","E","C","K">>, <<"U","N","I","Q","U","E">>, <<"F","O","R","E","I","G","N">> }

\* a table-level constraint clause: it starts with a bare constraint keyword
dbIsConstraint(clause) ==
    /\ Len(clause) >= 1
    /\ clause[1] \notin StringQuotes
    /\ ToUpper(dbIdentAt(clause, 1).name) \in ConstraintWords

\* the value of a run of digits
RECURSIVE DigitsValue(_)
DigitsValue(ds) ==
    IF Len(ds) = 0 THEN 0
    ELSE 10 * DigitsValue(SubSeq(ds, 1, Len(ds) - 1))
         + ((CHOOSE k \in DOMAIN Digits : Digits[k] = ds[Len(ds)]) - 1)

\* the length a column's declared type carries, as in varchar(5), behind a
\* pointer: NilPtr when the declaration has no "(digits)"
dbLength(clause) ==
    LET IsLen(p, q) == /\ clause[p] = "(" /\ clause[q] = ")" /\ q > p + 1
                       /\ \A k \in (p + 1)..(q - 1) : clause[k] \in Range(Digits)
    IN  IF \E p \in 1..Len(clause), q \in 1..Len(clause) : IsLen(p, q)
        THEN LET pq == CHOOSE pq \in (1..Len(clause)) \X (1..Len(clause)) : IsLen(pq[1], pq[2])
             IN  Ptr(DigitsValue(SubSeq(clause, pq[1] + 1, pq[2] - 1)))
        ELSE NilPtr

\* a column of a table as the catalog describes it
dbColumn(clause) ==
    [name    |-> dbIdentAt(clause, 1).name,
     notNull |-> Contains(ToUpper(clause), <<" ","N","O","T"," ","N","U","L","L">>),
     length  |-> dbLength(clause),
     decl    |-> clause]

RECURSIVE dbColumnsOf(_)
dbColumnsOf(clauseList) ==
    IF Len(clauseList) = 0 THEN << >>
    ELSE (IF dbIsConstraint(Head(clauseList)) THEN << >>
          ELSE <<dbColumn(Head(clauseList))>>)
         \o dbColumnsOf(Tail(clauseList))

\* a CREATE TABLE statement as SQLite reads it: [ok, name, cols, open], open
\* the position of the "(" that starts the body
dbParse(sql) ==
    LET bad == [ok |-> FALSE, name |-> << >>, cols |-> << >>, open |-> 0]
    IN  With(dbIdentAt(sql, Len(KwCreateTable) + 1), LAMBDA id :
        With(IF id.last + 1 <= Len(sql) /\ sql[id.last + 1] = " "
             THEN id.last + 2 ELSE id.last + 1, LAMBDA o :
          IF ~MatchesAt(ToUpper(sql), 1, KwCreateTable) \/ id.last = 0 THEN bad
          ELSE IF ~(o < Len(sql) /\ sql[o] = "(" /\ sql[Len(sql)] = ")") THEN bad
          ELSE With(dbSplit(SubSeq(sql, o + 1, Len(sql) - 1)), LAMBDA sp :
               With(dbColumnsOf(sp.clauses), LAMBDA cols :
                 IF \/ sp.err
                    \/ \E k \in 1..Len(sp.clauses) :
                          sp.clauses[k] = << >> \/ dbIdentAt(sp.clauses[k], 1).last = 0
                    \/ cols = << >>
                    \/ \E j, k \in 1..Len(cols) : j # k /\ cols[j].name = cols[k].name
                 THEN bad
                 ELSE [ok |-> TRUE, name |-> id.name, cols |-> cols, open |-> o]))))

\* the columns of a stored table
dbColumns(tbl) == dbParse(tbl.sql).cols

dbColumnNames(tbl) ==
    With(dbColumns(tbl), LAMBDA cols : { cols[k].name : k \in 1..Len(cols) })

\* A statement's result is [ok, db]: a statement that fails changes nothing.

\* CREATE TABLE ...: the text is the statement
dbExecCreateTable(db, sql) ==
    With(dbParse(sql), LAMBDA p :
      IF ~p.ok \/ p.name \in DOMAIN db.tables
      THEN [ok |-> FALSE, db |-> db]
      ELSE [ok |-> TRUE,
            db |-> [db EXCEPT !.tables = (p.name :> [sql |-> sql, rows |-> << >>]) @@ @]])

\* ALTER TABLE table ADD colText.  SQLite appends the column's text to the
\* stored statement; it refuses a UNIQUE column and a NOT NULL column without
\* a default, and the rows hold the default (NULL without one) in the column.
dbExecAddColumn(db, table, colText) ==
    With(dbColumn(colText), LAMBDA col :
    With(Contains(ToUpper(colText), <<" ","D","E","F","A","U","L","T"," ">>), LAMBDA hasDflt :
      IF table \notin DOMAIN db.tables THEN [ok |-> FALSE, db |-> db]
      ELSE IF \/ col.name = << >>
              \/ col.name \in dbColumnNames(db.tables[table])
              \/ col.notNull /\ ~hasDflt
              \/ Contains(ToUpper(colText), <<" ","U","N","I","Q","U","E">>)
      THEN [ok |-> FALSE, db |-> db]
      ELSE LET t == db.tables[table]
               newSql  == SubSeq(t.sql, 1, Len(t.sql) - 1) \o <<","," ">> \o colText \o <<")">>
               newRows == [k \in 1..Len(t.rows) |->
                              (col.name :> (IF hasDflt THEN "default" ELSE Null)) @@ t.rows[k]]
           IN  [ok |-> TRUE,
                db |-> [db EXCEPT !.tables[table] = [sql |-> newSql, rows |-> newRows]]]))

\* INSERT INTO `newTable`(columns) SELECT columns FROM `table`
dbExecInsertSelect(db, newTable, columns, table) ==
    IF \/ newTable \notin DOMAIN db.tables
       \/ table \notin DOMAIN db.tables
       \/ columns = << >>
    THEN [ok |-> FALSE, db |-> db]
    ELSE
      With({ dbIdentAt(columns[k], 1).name : k \in 1..Len(columns) }, LAMBDA names :
      With(dbColumnNames(db.tables[table]), LAMBDA srcNames :
      With(dbColumns(db.tables[newTable]), LAMBDA dstCols :
        LET src      == db.tables[table]
            dstNames == { dstCols[j].name : j \in 1..Len(dstCols) }
            copied   == [k \in 1..Len(src.rows) |->
                            [c \in dstNames |->
                                IF c \in names THEN src.rows[k][c] ELSE Null]]
        IN  IF ~(names \subseteq srcNames) \/ ~(names \subseteq dstNames)
            THEN [ok |-> FALSE, db |-> db]
            ELSE IF \E k \in 1..Len(src.rows), j \in 1..Len(dstCols) :
                       /\ dstCols[j].notNull
                       /\ (dstCols[j].name \notin names \/ src.rows[k][dstCols[j].name] = Null)
            THEN [ok |-> FALSE, db |-> db]
            ELSE [ok |-> TRUE,
                  db |-> [db EXCEPT !.tables[newTable].rows = @ \o copied]])))

\* DROP TABLE `table`: the table goes, and its indexes with it
dbExecDropTable(db, table) ==
    IF table \notin DOMAIN db.tables
    THEN [ok |-> FALSE, db |-> db]
    ELSE [ok |-> TRUE,
          db |-> [tables  |-> [n \in DOMAIN db.tables \ {table} |-> db.tables[n]],
                  indexes |-> { x \in db.indexes : x.tbl # table }]]

\* ALTER TABLE `from` RENAME TO `to`: SQLite rewrites the name in the stored
\* statement, double-quoted
dbExecRename(db, from, to) ==
    IF from \notin DOMAIN db.tables \/ to \in DOMAIN db.tables
    THEN [ok |-> FALSE, db |-> db]
    ELSE LET t      == db.tables[from]
             idLast == dbIdentAt(t.sql, Len(KwCreateTable) + 1).last
             newSql == KwCreateTable \o <<"\"">> \o to \o <<"\"">>
                         \o SubSeq(t.sql, idLast + 1, Len(t.sql))
         IN  [ok |-> TRUE,
              db |-> [tables  |-> (to :> [sql |-> newSql, rows |-> t.rows])
                                    @@ [n \in DOMAIN db.tables \ {from} |-> db.tables[n]],
                      indexes |-> { IF x.tbl = from THEN [x EXCEPT !.tbl = to] ELSE x :
                                      x \in db.indexes }]]

\* CREATE [class] INDEX `name` ON table(name)
dbExecCreateIndex(db, name, table, class) ==
    IF \/ table \notin DOMAIN db.tables
       \/ \E x \in db.indexes : x.name = name
       \/ name \in DOMAIN db.tables
    THEN [ok |-> FALSE, db |-> db]
    ELSE IF \/ name \notin dbColumnNames(db.tables[table])
            \/ /\ class = <<"U","N","I","Q","U","E">>
               /\ \E j, k \in 1..Len(db.tables[table].rows) :
                      j # k /\ db.tables[table].rows[j][name] = db.tables[table].rows[k][name]
    THEN [ok |-> FALSE, db |-> db]
    ELSE [ok |-> TRUE, db |-> [db EXCEPT !.indexes = @ \cup {[name |-> name, tbl |-> table]}]]

\* a statement the driver executes is [kind, a1, a2, a3]; the database's answer
dbExec(db, stmt) ==
    CASE stmt.kind = "CREATE TABLE" -> dbExecCreateTable(db, stmt.a1)
      [] stmt.kind = "ADD COLUMN"   -> dbExecAddColumn(db, stmt.a1, stmt.a2)
      [] stmt.kind = "INSERT"       -> dbExecInsertSelect(db, stmt.a1, stmt.a2, stmt.a3)
      [] stmt.kind = "DROP TABLE"   -> dbExecDropTable(db, stmt.a1)
      [] stmt.kind = "RENAME"       -> dbExecRename(db, stmt.a1, stmt.a2)
      [] stmt.kind = "CREATE INDEX" -> dbExecCreateIndex(db, stmt.a1, stmt.a2, stmt.a3)

Stmt(kind, a1, a2, a3) == [kind |-> kind, a1 |-> a1, a2 |-> a2, a3 |-> a3]

\* the kinds of statement that change the schema or the rows (Exec), as
\* opposed to the steps that only read (Query) or parse options
DDLKinds == {"CREATE TABLE", "ADD COLUMN", "INSERT", "DROP TABLE", "RENAME", "CREATE INDEX"}

\* ------------------------------------------------------------------------
\* The driver.  A call runs on a machine m = [db, log, fault, n, err, conf,
\* lengthKnown]:
\* db the database, log the steps taken so far, each [stmt, ok], n their
\* number, err the error the call is returning (Nil for none), conf the
\* options of the connection, lengthKnown whether the SQL driver reports the
\* declared length of a column.  fault is the position of the step that the
\* environment makes fail in this call (0: none): a statement or a query may
\* fail for reasons outside the program (I/O, a locked database).  The
\* catalog's count queries (HasTable, HasIndex) are taken not to fail.
\* ------------------------------------------------------------------------

TableName == <<"t">>

TempSuffix == <<"_","_","t","e","m","p">>

Injected(m) == m.fault = m.n + 1

\* a method of the driver is entered: the log keeps which, and for which field
Enter(m, method, field) ==
    [m EXCEPT !.log = Append(@, [stmt |-> Stmt(method, field, Nil, Nil), ok |-> TRUE])]

\* the methods the log keeps the entries of
MethodKinds == {"CreateTable", "AddColumn", "AlterColumn", "CreateIndex", "DropColumn"}

\* dbBase.Exec: the statement runs on the database
Exec(m, stmt) ==
    With(IF Injected(m) THEN [ok |-> FALSE, db |-> m.db] ELSE dbExec(m.db, stmt), LAMBDA res :
      [m EXCEPT !.n = @ + 1,
                !.db = res.db,
                !.log = Append(@, [stmt |-> stmt, ok |-> res.ok]),
                !.err = IF res.ok THEN Nil ELSE "ExecutionFailure"])

\* dbBase.Query: the Rows object of a query whose answer is [ok, rows]; it
\* carries the options of the connection
Query(m, kind, target, answer) ==
    LET bad == Injected(m) \/ ~answer.ok
    IN  [m |-> [m EXCEPT !.n = @ + 1,
                         !.log = Append(@, [stmt |-> Stmt(kind, target, Nil, Nil), ok |-> ~bad])],
         rows |-> [err  |-> IF bad THEN "ExecutionFailure" ELSE Nil,
                   rows |-> IF bad THEN << >> ELSE answer.rows,
                   ignoreNotFound |-> m.conf.ignoreNotFound,
                   maxRows |-> m.conf.maxRows]]

\* A destination of a fetch is [mode, canSet, bindable, value]: mode "struct"
\* for a record (isStructMode) and "scalar" otherwise, canSet whether reflection
\* can set it, bindable whether genBinder accepts its type, value what it
\* holds.  A row of a result set is [value, scannable, decodable, null]: Scan
\* fails on a row the destination cannot hold, the JSON text of a row that is
\* not decodable cannot be decoded, and the JSON cell of a null row is NULL.
\* A record has a plain column col, a column doc kept as JSON text and a
\* column ref kept as JSON text behind a pointer; col holds the row's value
\* when the row is bound, doc and ref hold what the JSON cell decodes to.

ZeroRecord == [col |-> 0, doc |-> 0, ref |-> NilPtr]

\* what rows.Scan leaves in the proxy of a JSON column: nil for a NULL cell,
\* otherwise the bytes of the cell
Proxy(row) == [null |-> row.null, decodable |-> row.decodable, value |-> row.value]

\* transfer.unmarshal of the transfer t = [dstProxy, dst, ptr]: [err, dst], dst
\* the field after the call.  A nil proxy leaves the field alone; a nil
\* pointer field is set to a new zero value before the bytes are decoded; a
\* JSON text that cannot be decoded is logged and the field keeps what it
\* holds by then.  (The records have no time column: the int64 branch is not
\* taken.)
unmarshal(t) ==
    IF t.dstProxy.null THEN [err |-> Nil, dst |-> t.dst]
    ELSE With(IF t.ptr THEN (IF t.dst = NilPtr THEN Ptr(0) ELSE t.dst) ELSE t.dst, LAMBDA rv :
           [err |-> Nil,
            dst |-> IF t.dstProxy.decodable
                    THEN (IF t.ptr THEN Ptr(t.dstProxy.value) ELSE t.dstProxy.value)
                    ELSE rv])

\* binder.scan of a row into the record rec: [err, rec]; the transfers are
\* the ones of the two JSON columns
binderScan(row, rec) ==
    IF ~row.scannable THEN [err |-> "ScanFailure", rec |-> rec]
    ELSE With(unmarshal([dstProxy |-> Proxy(row), dst |-> rec.doc, ptr |-> FALSE]), LAMBDA d :
         With(unmarshal([dstProxy |-> Proxy(row), dst |-> rec.ref, ptr |-> TRUE]), LAMBDA r :
           [err |-> IF d.err # Nil THEN d.err ELSE r.err,
            rec |-> [col |-> row.value, doc |-> d.dst, ref |-> r.dst]]))

\* Rows.scanRow: [err, dst]
scanRow(row, dst) ==
    IF ~dst.canSet THEN [err |-> "NotSettable", dst |-> dst]
    ELSE IF ~dst.bindable THEN [err |-> "BinderFailure", dst |-> dst]
    ELSE With(binderScan(row, dst.value), LAMBDA r :
           [err |-> r.err, dst |-> [dst EXCEPT !.value = r.rec]])

\* Rows.Row, a faulty variant: the ignore-not-found test is inverted
RowInverted(p, dst) ==
    IF p.err # Nil THEN [err |-> p.err, dst |-> dst, closed |-> FALSE]
    ELSE With(IF Len(p.rows) > 0
              THEN IF dst.mode = "struct" THEN scanRow(p.rows[1], dst)
                   ELSE IF p.rows[1].scannable
                   THEN [err |-> Nil, dst |-> [dst EXCEPT !.value = p.rows[1].value]]
                   ELSE [err |-> "ScanFailure", dst |-> dst]
              ELSE IF p.ignoreNotFound THEN [err |-> "NotFound", dst |-> dst]
              ELSE [err |-> Nil, dst |-> dst], LAMBDA r :
           [err |-> r.err, dst |-> r.dst, closed |-> TRUE])

\* Rows.Row: [err, dst, closed], dst the destination after the call, closed
\* whether the call has closed the cursor (the deferred p.rows.Close(), set up
\* once p.err is found nil)
Row(p, dst) ==
    IF p.err # Nil THEN [err |-> p.err, dst |-> dst, closed |-> FALSE]
    ELSE With(IF Len(p.rows) > 0
              THEN IF dst.mode = "struct" THEN scanRow(p.rows[1], dst)
                   ELSE IF p.rows[1].scannable
                   THEN [err |-> Nil, dst |-> [dst EXCEPT !.value = p.rows[1].value]]
                   ELSE [err |-> "ScanFailure", dst |-> dst]
              ELSE IF ~p.ignoreNotFound THEN [err |-> "NotFound", dst |-> dst]
              ELSE [err |-> Nil, dst |-> dst], LAMBDA r :
           [err |-> r.err, dst |-> r.dst, closed |-> TRUE])

\* the loop of Rows.Rows over the result set from row i on, n rows appended
\* so far: a scalar row that fails to scan ends the fetch with an error, the
\* error of a record row's scan is dropped; the cap is tested after the append
RECURSIVE rowsLoop(_, _, _, _)
rowsLoop(p, dst, i, n) ==
    IF i > Len(p.rows) THEN [err |-> Nil, dst |-> dst]
    ELSE IF dst.mode = "scalar" /\ ~p.rows[i].scannable
    THEN [err |-> "ScanFailure", dst |-> dst]
    ELSE LET appended == [dst EXCEPT !.value =
                             Append(@, IF dst.mode = "struct"
                                       THEN binderScan(p.rows[i], ZeroRecord).rec
                                       ELSE p.rows[i].value)]
         IN  IF n + 1 >= p.maxRows THEN [err |-> Nil, dst |-> appended]
             ELSE rowsLoop(p, appended, i + 1, n + 1)

\* Rows.Rows, a faulty variant: the cursor is closed at the end of the fetch
\* and not on the returns before it
RowsClosedAtEnd(p, dst) ==
    IF p.err # Nil THEN [err |-> p.err, dst |-> dst, closed |-> FALSE]
    ELSE IF ~dst.canSet THEN [err |-> "NotSettable", dst |-> dst, closed |-> FALSE]
    ELSE IF dst.mode = "struct" /\ ~dst.bindable
    THEN [err |-> "BinderFailure", dst |-> dst, closed |-> FALSE]
    ELSE With(rowsLoop(p, dst, 1, 0), LAMBDA r :
           [err |-> r.err, dst |-> r.dst, closed |-> r.err = Nil])

\* Rows.Rows: [err, dst, closed], closed whether the call has closed the
\* cursor (the deferred p.rows.Close(), set up once p.err is found nil)
Rows(p, dst) ==
    IF p.err # Nil THEN [err |-> p.err, dst |-> dst, closed |-> FALSE]
    ELSE With(IF ~dst.canSet THEN [err |-> "NotSettable", dst |-> dst]
              ELSE IF dst.mode = "struct" /\ ~dst.bindable
              THEN [err |-> "BinderFailure", dst |-> dst]
              ELSE rowsLoop(p, dst, 1, 0), LAMBDA r :
           [err |-> r.err, dst |-> r.dst, closed |-> TRUE])

\* Rows.Iterator: [err]; no iterator is returned for a query that failed
Iterator(p) == [err |-> p.err]

\* rowsIterator.Next on an iterator that stands on row pos: [more, pos,
\* closed]; it moves the cursor and closes nothing
rowsIteratorNext(p, pos) ==
    [more |-> pos < Len(p.rows), pos |-> pos + 1, closed |-> FALSE]

\* rowsIterator.Row on an iterator that stands on row pos: [err, dst, closed];
\* it binds the row as Rows.Row does and closes nothing
rowsIteratorRow(p, pos, dst) ==
    IF p.err # Nil THEN [err |-> p.err, dst |-> dst, closed |-> FALSE]
    ELSE With(IF dst.mode = "struct" THEN scanRow(p.rows[pos], dst)
              ELSE IF p.rows[pos].scannable
              THEN [err |-> Nil, dst |-> [dst EXCEPT !.value = p.rows[pos].value]]
              ELSE [err |-> "ScanFailure", dst |-> dst], LAMBDA r :
           [err |-> r.err, dst |-> r.dst, closed |-> FALSE])

\* rowsIterator.Close: [err, closed]
rowsIteratorClose(p) == [err |-> Nil, closed |-> TRUE]

Dst(mode, canSet, bindable, value) ==
    [mode |-> mode, canSet |-> canSet, bindable |-> bindable, value |-> value]

\* sqlOptions: the options of the call are parsed; the step may fail
sqlOptions(m) ==
    [m EXCEPT !.n = @ + 1,
              !.log = Append(@, [stmt |-> Stmt("sqlOptions", Nil, Nil, Nil), ok |-> ~Injected(m)]),
              !.err = IF Injected(m) THEN "Validation" ELSE Nil]

\* Sqlite.HasTable
HasTable(db, tableName) == tableName \in DOMAIN db.tables

\* Sqlite.HasIndex, a faulty variant: the table of the index is compared with
\* the name of the index
HasIndexArgsMixed(db, name, table) == \E x \in db.indexes : x.name = name /\ x.tbl = name

\* Sqlite.HasIndex
HasIndex(db, name, table) == \E x \in db.indexes : x.name = name /\ x.tbl = table

\* Sqlite.convertFieldOptions, of a column as the database describes it;
\* lengthKnown: whether the SQL driver reports the declared length
convertFieldOptions(c, lengthKnown) ==
    [name    |-> c.name,
     size    |-> IF lengthKnown THEN c.length ELSE NilPtr,
     notNull |-> Ptr(c.notNull)]

\* Sqlite.ColumnTypes: [m, fields, err]
ColumnTypes(m, table) ==
    With(Query(m, "SELECT *", table, [ok |-> table \in DOMAIN m.db.tables, rows |-> << >>]),
         LAMBDA q :
      IF q.rows.err # Nil
      THEN [m |-> q.m, fields |-> << >>, err |-> q.rows.err]
      ELSE With(dbColumns(m.db.tables[table]), LAMBDA cols :
             [m |-> q.m,
              fields |-> [k \in 1..Len(cols) |-> convertFieldOptions(cols[k], m.lengthKnown)],
              err |-> Nil]))

\* Sqlite.CreateIndex
CreateIndex(m, sample, name) ==
    IF ~HasField(sample, name) THEN [Enter(m, "CreateIndex", name) EXCEPT !.err = "lookup"]
    ELSE LET f == tableFieldLookup(sample, name)
         IN  Exec(Enter(m, "CreateIndex", name), Stmt("CREATE INDEX", f.name, TableName, f.class))

\* Sqlite.AddColumn
AddColumn(m, sample, field) ==
    IF ~HasField(sample, field) THEN [Enter(m, "AddColumn", field) EXCEPT !.err = "lookup"]
    ELSE LET f == tableFieldLookup(sample, field)
         IN  Exec(Enter(m, "AddColumn", field), Stmt("ADD COLUMN", TableName,
                          <<BT>> \o f.name \o <<BT, " ">> \o FullDataTypeOf(f), Nil))

\* Sqlite.getRawDDL: [m, createSQL, err]
getRawDDL(m, table) ==
    With(Query(m, "SELECT sql", table,
               [ok |-> TRUE,
                rows |-> IF table \in DOMAIN m.db.tables
                         THEN << [value |-> m.db.tables[table].sql, scannable |-> TRUE] >>
                         ELSE << >>]), LAMBDA q :
    With(Row(q.rows, Dst("scalar", TRUE, TRUE, << >>)), LAMBDA r :
      [m |-> q.m, createSQL |-> r.dst.value, err |-> r.err]))

\* the callback handed to recreateTable, AlterColumn's (cb = "alter") or
\* DropColumn's (cb = "drop"): [sql, err]
getCreateSQL(cb, sample, field, rawDDL) ==
    IF cb = "drop" THEN [sql |-> ReplaceAllString(cb, rawDDL, field, << >>), err |-> Nil]
    ELSE IF ~HasField(sample, field) THEN [sql |-> << >>, err |-> "lookup"]
    ELSE LET f == tableFieldLookup(sample, field)
         IN  [sql |-> ReplaceAllString(cb, rawDDL, f.name,
                         <<BT>> \o f.name \o <<BT, " ">> \o FullDataTypeOf(f) \o <<",">>),
              err |-> Nil]

\* the queries of recreateTable, a faulty variant: the original is dropped before its
\* rows are copied
recreateQueriesDropFirst(newTableName, columns, table) ==
    << Stmt("DROP TABLE", table, Nil, Nil),
       Stmt("INSERT", newTableName, columns, table),
       Stmt("RENAME", newTableName, table, Nil) >>

\* the queries of recreateTable after the CREATE of the temporary table
recreateQueries(newTableName, columns, table) ==
    << Stmt("INSERT", newTableName, columns, table),
       Stmt("DROP TABLE", table, Nil, Nil),
       Stmt("RENAME", newTableName, table, Nil) >>

\* the loop of recreateTable over its queries, a faulty variant: a failing query
\* does not end the loop
execQueriesNoAbort(m, queries, i) ==
    LET m1 == Exec(m, queries[1])
        m2 == Exec(m1, queries[2])
        m3 == Exec(m2, queries[3])
    IN  [m3 EXCEPT !.err = IF \E k \in 1..Len(m3.log) : ~m3.log[k].ok
                           THEN "ExecutionFailure" ELSE Nil]

\* the loop of recreateTable over its queries, from query i on
RECURSIVE execQueries(_, _, _)
execQueries(m, queries, i) ==
    IF i > Len(queries) THEN m
    ELSE With(Exec(m, queries[i]), LAMBDA m1 :
           IF m1.err # Nil THEN m1 ELSE execQueries(m1, queries, i + 1))

\* Sqlite.recreateTable, a faulty variant: the columns of the copy are those of
\* the DDL as it was before the callback changed it
recreateTableOldColumns(m, sample, cb, field) ==
    LET table        == TableName
        newTableName == table \o TempSuffix
    IN
    With(getRawDDL(m, table), LAMBDA g :
      IF g.err # Nil THEN [g.m EXCEPT !.err = g.err]
      ELSE
        With(getCreateSQL(cb, sample, field, g.createSQL), LAMBDA c :
          IF c.err # Nil THEN [g.m EXCEPT !.err = c.err]
          ELSE IF c.sql = << >> THEN g.m
          ELSE
            With(ReplaceAllString("table", c.sql, table,
                                  <<" ", BT>> \o newTableName \o <<BT, " ">>), LAMBDA createSQL :
            With(sqliteParseDDL(createSQL), LAMBDA createDDL :
              IF createDDL.err THEN [g.m EXCEPT !.err = "DDLParseFailure"]
              ELSE
                With(getColumns(sqliteParseDDL(g.createSQL).fields), LAMBDA columns :
                With(Exec(g.m, Stmt("CREATE TABLE", createSQL, Nil, Nil)), LAMBDA m1 :
                  IF m1.err # Nil THEN m1
                  ELSE execQueries(m1, recreateQueries(newTableName, columns, table), 1)
                ))))))

\* Sqlite.recreateTable
recreateTable(m, sample, cb, field) ==
    LET table        == TableName
        newTableName == table \o TempSuffix
    IN
    With(getRawDDL(m, table), LAMBDA g :
      IF g.err # Nil THEN [g.m EXCEPT !.err = g.err]
      ELSE
        With(getCreateSQL(cb, sample, field, g.createSQL), LAMBDA c :
          IF c.err # Nil THEN [g.m EXCEPT !.err = c.err]
          ELSE IF c.sql = << >> THEN g.m
          ELSE
            With(ReplaceAllString("table", c.sql, table,
                                  <<" ", BT>> \o newTableName \o <<BT, " ">>), LAMBDA createSQL :
            With(sqliteParseDDL(createSQL), LAMBDA createDDL :
              IF createDDL.err THEN [g.m EXCEPT !.err = "DDLParseFailure"]
              ELSE
                With(getColumns(createDDL.fields), LAMBDA columns :
                With(Exec(g.m, Stmt("CREATE TABLE", createSQL, Nil, Nil)), LAMBDA m1 :
                  IF m1.err # Nil THEN m1
                  ELSE execQueries(m1, recreateQueries(newTableName, columns, table), 1)
                ))))))

\* Sqlite.AlterColumn
AlterColumn(m, sample, field) ==
    recreateTable(Enter(m, "AlterColumn", field), sample, "alter", field)

\* Sqlite.DropColumn
DropColumn(m, sample, field) ==
    recreateTable(Enter(m, "DropColumn", field), sample, "drop", field)

\* the decision of MigrateColumn, a faulty variant: the nullability is not
\* compared
alterColumnSizeOnly(expect, actual) ==
    actual.size # NilPtr /\ Int64Value(expect.size) # Int64Value(actual.size)

\* the decision of MigrateColumn: whether the column is altered
alterColumn(expect, actual) ==
    \/ actual.size # NilPtr /\ Int64Value(expect.size) # Int64Value(actual.size)
    \/ expect.notNull # NilPtr /\ BoolValue(expect.notNull) # BoolValue(actual.notNull)

\* Sqlite.MigrateColumn
MigrateColumn(m, sample, expect, actual) ==
    IF alterColumn(expect, actual) THEN AlterColumn(m, sample, expect.name) ELSE m

\* the column clauses of CreateTable's statement, "`name` type," for each
\* field from the i-th on
RECURSIVE createColumns(_, _)
createColumns(sample, i) ==
    IF i > Len(sample) THEN << >>
    ELSE <<BT>> \o sample[i].name \o <<BT, " ">> \o FullDataTypeOf(sample[i]) \o <<",">>
         \o createColumns(sample, i + 1)

\* the quoted names of the primary-key fields, from the i-th field on
RECURSIVE primaryKeys(_, _)
primaryKeys(sample, i) ==
    IF i > Len(sample) THEN << >>
    ELSE (IF sample[i].primaryKey THEN << <<BT>> \o sample[i].name \o <<BT>> >> ELSE << >>)
         \o primaryKeys(sample, i + 1)

\* the statement CreateTable builds
createTableSQL(sample) ==
    LET pks == primaryKeys(sample, 1)
    IN  TrimSuffix(KwCreateTable \o <<BT>> \o TableName \o <<BT, " ", "(">>
                     \o createColumns(sample, 1)
                     \o (IF Len(pks) > 0
                         THEN <<"P","R","I","M","A","R","Y"," ","K","E","Y"," ","(">>
                                \o Join(pks, <<",">>) \o <<")", ",">>
                         ELSE << >>),
                   <<",">>)
          \o <<")">>

\* one deferred function of CreateTable, a faulty variant: the index is
\* created whatever the error so far
deferredIndexAlways(m, sample, f) ==
    IF f.indexKey THEN CreateIndex(m, sample, f.name) ELSE m

\* one deferred function of CreateTable (there is one for each indexed field)
deferredIndex(m, sample, f) ==
    IF f.indexKey /\ m.err = Nil THEN CreateIndex(m, sample, f.name) ELSE m

\* the deferred functions of CreateTable run last in, first out: from the
\* i-th field down to the first
RECURSIVE runDeferred(_, _, _)
runDeferred(m, sample, i) ==
    IF i = 0 THEN m
    ELSE runDeferred(deferredIndex(m, sample, sample[i]), sample, i - 1)

\* Sqlite.CreateTable
CreateTable(m, sample) ==
    runDeferred(Exec(Enter(m, "CreateTable", << >>),
                     Stmt("CREATE TABLE", createTableSQL(sample), Nil, Nil)),
                sample, Len(sample))

\* whether an introspected column has that name, and the first that has
Found(actualFields, name) == \E k \in 1..Len(actualFields) : actualFields[k].name = name

foundField(actualFields, name) ==
    actualFields[CHOOSE k \in 1..Len(actualFields) :
                     /\ actualFields[k].name = name
                     /\ \A j \in 1..(k - 1) : actualFields[j].name # name]

\* the column loop of AutoMigrate, from the i-th desired field on
RECURSIVE migrateColumns(_, _, _, _)
migrateColumns(m, sample, actualFields, i) ==
    IF i > Len(sample) THEN m
    ELSE With(sample[i], LAMBDA expectField :
         With(IF ~Found(actualFields, expectField.name)
              THEN AddColumn(m, sample, expectField.name)
              ELSE MigrateColumn(m, sample, expectField,
                                 foundField(actualFields, expectField.name)), LAMBDA m1 :
           IF m1.err # Nil THEN m1
           ELSE migrateColumns(m1, sample, actualFields, i + 1)))

\* the index loop of AutoMigrate, from the i-th desired field on
RECURSIVE migrateIndexes(_, _, _)
migrateIndexes(m, sample, i) ==
    IF i > Len(sample) THEN m
    ELSE With(sample[i], LAMBDA f :
         With(IF f.indexKey /\ ~HasIndex(m.db, f.name, TableName)
              THEN CreateIndex(m, sample, f.name) ELSE m, LAMBDA m1 :
           IF m1.err # Nil THEN m1 ELSE migrateIndexes(m1, sample, i + 1)))

\* Sqlite.AutoMigrate.  The error of ColumnTypes is dropped: the column loop
\* then runs on an empty list of actual columns.
AutoMigrate(m, sample) ==
    With(sqlOptions(m), LAMBDA o :
      IF o.err # Nil THEN o
      ELSE IF ~HasTable(o.db, TableName) THEN CreateTable(o, sample)
      ELSE With(ColumnTypes(o, TableName), LAMBDA ct :
           With(migrateColumns(ct.m, sample, ct.fields, 1), LAMBDA m1 :
             IF m1.err # Nil THEN m1 ELSE migrateIndexes(m1, sample, 1))))

\* ------------------------------------------------------------------------
\* Desired schemas and the databases a call may find
\* ------------------------------------------------------------------------

TextV == <<"t","e","x","t">>

\* a field of a desired schema (FieldOptions): a String or Int column
Field(name, dataType, notNull, indexKey, primaryKey) ==
    [name |-> name, dataType |-> dataType, size |-> NilPtr, notNull |-> notNull,
     unique |-> NilPtr, defaultValue |-> << >>, primaryKey |-> primaryKey,
     autoIncrement |-> FALSE, indexKey |-> indexKey, class |-> << >>]

ColA == <<"a">>

ColB == <<"b">>

ColC == <<"c">>

\* a indexed and NOT NULL, b plain
SampleA ==
    << Field(ColA, "String", Ptr(TRUE), TRUE, FALSE),
       Field(ColB, "String", NilPtr, FALSE, FALSE) >>

\* a plain, b NOT NULL
SampleB ==
    << Field(ColA, "String", NilPtr, FALSE, FALSE),
       Field(ColB, "String", Ptr(TRUE), FALSE, FALSE) >>

\* a the integer primary key, b and c indexed, c explicitly nullable
SampleC ==
    << Field(ColA, "Int", NilPtr, FALSE, TRUE),
       Field(ColB, "String", NilPtr, TRUE, FALSE),
       Field(ColC, "String", Ptr(FALSE), TRUE, FALSE) >>

Samples == {SampleA, SampleB, SampleC}

\* CREATE TABLE `t` (`a` text,`b` text)
DDLPlain ==
    <<"C","R","E","A","T","E"," ","T","A","B","L","E"," ",BT,"t",BT," ","(",BT,"a",BT," ","t","e","x","t",",",BT,"b",BT," ","t","e","x","t",")">>

\* CREATE TABLE `t` (`a` text,checked text,`b` text)
DDLChecked ==
    <<"C","R","E","A","T","E"," ","T","A","B","L","E"," ",BT,"t",BT," ","(",BT,"a",BT," ","t","e","x","t",",","c","h","e","c","k","e","d"," ","t","e","x","t",",",BT,"b",BT," ","t","e","x","t",")">>

\* CREATE TABLE `t` (`a` varchar(5) NOT NULL,`x` text)
DDLVarchar ==
    <<"C","R","E","A","T","E"," ","T","A","B","L","E"," ",BT,"t",BT," ","(",BT,"a",BT," ","v","a","r","c","h","a","r","(","5",")"," ","N","O","T"," ","N","U","L","L",",",BT,"x",BT," ","t","e","x","t",")">>

InitialDDLs == {DDLPlain, DDLChecked, DDLVarchar}

\* a NOT NULL with size 10, b plain
SampleSized ==
    << [Field(ColA, "String", Ptr(TRUE), FALSE, FALSE) EXCEPT !.size = Ptr(10)],
       Field(ColB, "String", NilPtr, FALSE, FALSE) >>

\* CREATE TABLE `t` (`a` varchar(5),`b` text)
DDLSized ==
    <<"C","R","E","A","T","E"," ","T","A","B","L","E"," ",BT,"t",BT," ","(",BT,"a",BT," ","v","a","r","c","h","a","r","(","5",")",",",BT,"b",BT," ","t","e","x","t",")">>

\* CREATE TABLE `t` (`a` varchar(5),checked text,`b` text)
DDLSizedChecked ==
    <<"C","R","E","A","T","E"," ","T","A","B","L","E"," ",BT,"t",BT," ","(",BT,"a",BT," ","v","a","r","c","h","a","r","(","5",")",",","c","h","e","c","k","e","d"," ","t","e","x","t",",",BT,"b",BT," ","t","e","x","t",")">>

SizedDDLs == {DDLSized, DDLSizedChecked}

NoDB == [tables |-> << >>, indexes |-> {}]

\* the database that holds table t as sql creates it, with one row that has
\* the value "v" in every column
DBWith(sql) ==
    [tables  |-> (TableName :> [sql  |-> sql,
                                rows |-> << [c \in dbColumnNames([sql |-> sql]) |-> "v"] >>]),
     indexes |-> {}]

InitialDBs == {NoDB} \cup { DBWith(sql) : sql \in InitialDDLs }

\* ------------------------------------------------------------------------
\* The options of a connection
\* ------------------------------------------------------------------------

DefaultMaxRows == 1000

NewDefaultDBOptions == [ignoreNotFound |-> FALSE, maxRows |-> DefaultMaxRows]

WithIgnoreNotFound(o) == [o EXCEPT !.ignoreNotFound = TRUE]

WithMaxRows(o, n) == [o EXCEPT !.maxRows = n]

\* the largest cap and the largest result set of the fetches explored
MaxCap == 3

MaxResult == 3

\* the options a connection is opened with: any cap from 0 to MaxCap or none
\* (the default stays), with or without ignore-not-found
OpenedOptions ==
    LET caps == {NewDefaultDBOptions} \cup { WithMaxRows(NewDefaultDBOptions, n) : n \in 0..MaxCap }
    IN  caps \cup { WithIgnoreNotFound(o) : o \in caps }

\* ------------------------------------------------------------------------
\* State
\* ------------------------------------------------------------------------

VARIABLES
    db,           \* the database: [tables, indexes]
    sample,       \* the desired schema: the fields of the record type
    conf,         \* the options the connection was opened with
    lengthKnown,  \* whether the SQL driver reports a column's declared length
                  \* (no table but that of DDLVarchar declares one)
    hist,         \* the calls made so far, in order, each with what it did
    rs,           \* the Rows object of the last query: [open, p]
    out,          \* the last fetch from rs: [op, p, before, dst, err]
    ddl,          \* the text handed to the DDL parser
    doc,          \* what the parser made of it: [done, err, head, fields, columns]
    script,       \* the bytes handed to ExecRows
    run,          \* what ExecRows did with them
    dbFactories,  \* the registry of driver factories, by name
    registered,   \* the last call of Register: <<[name, d, panic]>>, or << >>
    given,        \* the argument and the receiver of Options.Error
    returned,     \* what Options.Error returned: [done, err]
    hookOps,      \* the registered hooks of the process, by action
    proc,         \* the process: [status, initDone, done, err, wg]
    main,         \* the goroutine that calls Start: [pc, ret, shutdown, sigs]
    stops,        \* the invocations of stop so far: [caller, pc, i, ret, waiter]
    dispatched    \* the hooks dispatched so far: [hook, by, err]

vars == <<db, sample, conf, lengthKnown, hist, rs, out, ddl, doc,
          script, run, dbFactories, registered, given, returned,
          hookOps, proc, main, stops, dispatched>>

\* the state of the DDL parser, which no call of the driver touches
parseVars == <<ddl, doc>>

\* the state of ExecRows
scriptVars == <<script, run>>

\* the state of the registry of driver factories
registryVars == <<dbFactories, registered>>

\* the state of Options.Error
errorVars == <<given, returned>>

\* the state of the process and of its goroutines
procVars == <<hookOps, proc, main, stops, dispatched>>

\* all the state that no step of the process touches
dbVars == <<db, sample, conf, lengthKnown, hist, rs, out, parseVars, scriptVars,
            registryVars, errorVars>>

\* proc = newProcess(): no hook registered, the context not cancelled, Start
\* not called
NoHooks == [start |-> << >>, reload |-> << >>, stop |-> << >>]

newProcess == [status |-> "ZERO", initDone |-> FALSE, done |-> FALSE, err |-> Nil, wg |-> 0]

NoMain == [pc |-> "idle", ret |-> Nil, shutdown |-> FALSE, sigs |-> 0]

NoProcess ==
    /\ hookOps = NoHooks /\ proc = newProcess /\ main = NoMain
    /\ stops = << >> /\ dispatched = << >>

\* the bounds of a behaviour: the calls, the calls among them in which the
\* environment makes a step fail, and the last step of a call it may make fail
MaxCalls == 2

MaxFaults == 1

MaxFault == 8

\* the calls made so far in which the environment made a step fail
Faulted == { k \in 1..Len(hist) : hist[k].fault # 0 }

\* the environment may make the fault-th step of the next call fail (0: none)
MayFail(fault) == fault = 0 \/ Cardinality(Faulted) < MaxFaults

Machine(fault) ==
    [db |-> db, log |-> << >>, fault |-> fault, n |-> 0, err |-> Nil,
     conf |-> conf, lengthKnown |-> lengthKnown]

\* the record of a finished call
Call(op, field, fault, m) ==
    [op |-> op, field |-> field, fault |-> fault, err |-> m.err, log |-> m.log,
     pre |-> db, post |-> m.db]

\* a call returns, having taken the step that was to fail: the database is as
\* the call left it, the call is recorded
Returned(op, field, fault, m) ==
    /\ fault <= m.n
    /\ db' = m.db
    /\ hist' = Append(hist, Call(op, field, fault, m))

\* no text has been handed to the DDL parser
NoText == << >>

\* no document has been compiled and parsed again
NoAgain == [done |-> FALSE, text |-> << >>, err |-> FALSE, head |-> << >>,
            fields |-> << >>]

NoDoc == [done |-> FALSE, err |-> FALSE, head |-> << >>, fields |-> << >>,
          columns |-> << >>, again |-> NoAgain]

\* ExecRows has not run
NoRun == [done |-> FALSE, began |-> FALSE, cmds |-> << >>, executed |-> << >>,
          failed |-> 0, committed |-> FALSE, rolledBack |-> FALSE, err |-> << >>,
          stored |-> << >>]

\* dbFactories = map[string]DBFactory{}
NoFactories == {}

NoRegister == << >>

NoGiven == [err |-> << >>, o |-> [err |-> << >>, table |-> << >>, ignoreNotFound |-> FALSE]]

NoReturn == [done |-> FALSE, err |-> << >>]

\* rs is [open, p, cursor, iter, pos]: open whether the Rows object of the
\* last query waits for its fetch, p the object, cursor the state of the
\* cursor of the query ("none" when the query produced none), iter whether an
\* iterator has been taken from the object, pos the row the iterator stands
\* on, queries the number of queries made so far
NoRows == [open |-> FALSE,
           p |-> [err |-> Nil, rows |-> << >>, ignoreNotFound |-> FALSE, maxRows |-> 0],
           cursor |-> "none", iter |-> FALSE, pos |-> 0, queries |-> 0]

NoOut == [op |-> "none", p |-> NoRows.p, before |-> Dst("scalar", TRUE, TRUE, 0),
          dst |-> Dst("scalar", TRUE, TRUE, 0), err |-> Nil]

Init ==
    /\ db \in InitialDBs
    /\ sample \in Samples
    /\ conf \in {NewDefaultDBOptions, WithIgnoreNotFound(NewDefaultDBOptions)}
    /\ lengthKnown \in (IF db = DBWith(DDLVarchar) THEN BOOLEAN ELSE {FALSE})
    /\ hist = << >>
    /\ rs = NoRows
    /\ out = NoOut
    /\ ddl = NoText
    /\ doc = NoDoc
    /\ script = NoText /\ run = NoRun
    /\ dbFactories = NoFactories /\ registered = NoRegister
    /\ given = NoGiven /\ returned = NoReturn
    /\ NoProcess

\* a call of AutoMigrate with the desired schema
AutoMigrateCall ==
    \E fault \in 0..MaxFault :
        /\ Len(hist) < MaxCalls
        /\ MayFail(fault)
        /\ Returned("AutoMigrate", << >>, fault, AutoMigrate(Machine(fault), sample))
        /\ UNCHANGED <<sample, conf, lengthKnown, rs, out, parseVars, scriptVars, registryVars, errorVars, procVars>>

\* a call of AlterColumn for one field of the desired schema
AlterColumnCall ==
    \E field \in {ColA, ColB}, fault \in 0..MaxFault :
        /\ Len(hist) < MaxCalls
        /\ MayFail(fault)
        /\ Returned("AlterColumn", field, fault, AlterColumn(Machine(fault), sample, field))
        /\ UNCHANGED <<sample, conf, lengthKnown, rs, out, parseVars, scriptVars, registryVars, errorVars, procVars>>

\* a call of DropColumn for a column
DropColumnCall ==
    \E field \in {ColA, ColB}, fault \in 0..MaxFault :
        /\ Len(hist) < MaxCalls
        /\ MayFail(fault)
        /\ Returned("DropColumn", field, fault, DropColumn(Machine(fault), sample, field))
        /\ UNCHANGED <<sample, conf, lengthKnown, rs, out, parseVars, scriptVars, registryVars, errorVars, procVars>>

Next == AutoMigrateCall \/ AlterColumnCall

\* the recreations of a table by the callers of recreateTable
NextRecreate == AlterColumnCall \/ DropColumnCall

Spec == Init /\ [][Next]_vars

SpecRecreate == Init /\ [][NextRecreate]_vars

\* ------------------------------------------------------------------------
\* The creation of a table: no table yet, a desired schema of one or two
\* columns with any combination of primary-key and auto-increment flags
\* ------------------------------------------------------------------------

\* a column of a key schema
KeyField(name, dataType, primaryKey, autoIncrement) ==
    [Field(name, dataType, NilPtr, FALSE, primaryKey) EXCEPT !.autoIncrement = autoIncrement]

KeyFields(name) ==
    { KeyField(name, dataType, primaryKey, autoIncrement) :
          dataType \in {"Int", "String"}, primaryKey \in BOOLEAN, autoIncrement \in BOOLEAN }

\* the desired schemas of one column a, or of two columns a and b
KeySamples ==
    { <<fa>> : fa \in KeyFields(ColA) }
        \cup { <<fa, fb>> : fa \in KeyFields(ColA), fb \in KeyFields(ColB) }

InitCreate ==
    /\ db = NoDB
    /\ sample \in KeySamples
    /\ conf = NewDefaultDBOptions
    /\ lengthKnown = FALSE
    /\ hist = << >>
    /\ rs = NoRows
    /\ out = NoOut
    /\ ddl = NoText
    /\ doc = NoDoc
    /\ script = NoText /\ run = NoRun
    /\ dbFactories = NoFactories /\ registered = NoRegister
    /\ given = NoGiven /\ returned = NoReturn
    /\ NoProcess

\* a call of CreateTable with the desired schema
CreateTableCall ==
    \E fault \in 0..MaxFault :
        /\ Len(hist) < MaxCalls
        /\ MayFail(fault)
        /\ Returned("CreateTable", << >>, fault, CreateTable(Machine(fault), sample))
        /\ UNCHANGED <<sample, conf, lengthKnown, rs, out, parseVars, scriptVars, registryVars, errorVars, procVars>>

NextCreate == CreateTableCall

SpecCreate == InitCreate /\ [][NextCreate]_vars

\* ------------------------------------------------------------------------
\* Fetching: a connection opened with some options, queries on it, and one
\* fetch (Row or Rows) from the Rows object of each query
\* ------------------------------------------------------------------------

\* what can be particular about a row: nothing, it cannot be scanned into
\* the destination, it is scanned and its JSON text cannot be decoded, or it
\* is scanned and its JSON cell is NULL
RowFaults ==
    { [scannable |-> TRUE, decodable |-> TRUE, null |-> FALSE],
      [scannable |-> FALSE, decodable |-> TRUE, null |-> FALSE],
      [scannable |-> TRUE, decodable |-> FALSE, null |-> FALSE],
      [scannable |-> TRUE, decodable |-> TRUE, null |-> TRUE] }

\* the most rows of a result set that are particular
MaxRowFaults == 1

PlainRow == [scannable |-> TRUE, decodable |-> TRUE, null |-> FALSE]

\* the result sets of up to MaxResult rows, up to MaxRowFaults of them
\* particular: row k holds the value k
ResultSets ==
    UNION { { [k \in 1..n |-> [value |-> k, scannable |-> f[k].scannable,
                               decodable |-> f[k].decodable, null |-> f[k].null]] :
                f \in { g \in [1..n -> RowFaults] :
                            Cardinality({ k \in 1..n : g[k] # PlainRow }) <= MaxRowFaults } } :
            n \in 0..MaxResult }

\* the most queries of a behaviour
MaxQueries == 1

DstModes == {"scalar", "struct"}

\* the destinations of a fetch of one mode, holding value
Dsts(mode, value) ==
    { Dst(mode, canSet, bindable, value) : canSet \in BOOLEAN, bindable \in BOOLEAN }

InitRows ==
    /\ db = NoDB
    /\ sample = SampleA
    /\ conf \in OpenedOptions
    /\ lengthKnown = FALSE
    /\ hist = << >>
    /\ rs = NoRows
    /\ out = NoOut
    /\ ddl = NoText
    /\ doc = NoDoc
    /\ script = NoText /\ run = NoRun
    /\ dbFactories = NoFactories /\ registered = NoRegister
    /\ given = NoGiven /\ returned = NoReturn
    /\ NoProcess

\* a query: it fails, or it answers with a result set behind an open cursor
QueryCall ==
    \E answer \in { [ok |-> FALSE, rows |-> << >>] } \cup { [ok |-> TRUE, rows |-> r] : r \in ResultSets } :
        /\ rs.queries < MaxQueries
        /\ With(Query(Machine(0), "SELECT", TableName, answer).rows, LAMBDA p :
             rs' = [open |-> TRUE, p |-> p,
                    cursor |-> IF p.err = Nil THEN "open" ELSE "none",
                    iter |-> FALSE, pos |-> 0, queries |-> rs.queries + 1])
        /\ out' = NoOut
        /\ UNCHANGED <<db, sample, conf, lengthKnown, hist, parseVars, scriptVars, registryVars, errorVars, procVars>>

\* Row on the Rows object of the last query, into a destination that holds
\* the zero value of its type
RowCall ==
    \E mode \in DstModes : \E dst \in Dsts(mode, IF mode = "struct" THEN ZeroRecord ELSE 0) :
        /\ rs.open /\ ~rs.iter
        /\ With(Row(rs.p, dst), LAMBDA r :
             /\ out' = [op |-> "Row", p |-> rs.p, before |-> dst, dst |-> r.dst, err |-> r.err]
             /\ rs' = [rs EXCEPT !.open = FALSE,
                                 !.cursor = IF r.closed THEN "closed" ELSE @])
        /\ UNCHANGED <<db, sample, conf, lengthKnown, hist, parseVars, scriptVars, registryVars, errorVars, procVars>>

\* Rows on the Rows object of the last query, into an empty slice
RowsCall ==
    \E mode \in DstModes : \E dst \in Dsts(mode, << >>) :
        /\ rs.open /\ ~rs.iter
        /\ With(Rows(rs.p, dst), LAMBDA r :
             /\ out' = [op |-> "Rows", p |-> rs.p, before |-> dst, dst |-> r.dst, err |-> r.err]
             /\ rs' = [rs EXCEPT !.open = FALSE,
                                 !.cursor = IF r.closed THEN "closed" ELSE @])
        /\ UNCHANGED <<db, sample, conf, lengthKnown, hist, parseVars, scriptVars, registryVars, errorVars, procVars>>

\* Iterator on the Rows object of the last query
IteratorCall ==
    /\ rs.open /\ ~rs.iter
    /\ With(Iterator(rs.p), LAMBDA r :
         /\ out' = [NoOut EXCEPT !.op = "Iterator", !.p = rs.p, !.err = r.err]
         /\ rs' = [rs EXCEPT !.open = r.err = Nil, !.iter = r.err = Nil])
    /\ UNCHANGED <<db, sample, conf, lengthKnown, hist, parseVars, scriptVars, registryVars, errorVars, procVars>>

\* Next on the iterator
IterNextCall ==
    /\ rs.iter /\ rs.cursor = "open"
    /\ rs.pos <= Len(rs.p.rows)
    /\ With(rowsIteratorNext(rs.p, rs.pos), LAMBDA r :
         /\ out' = [NoOut EXCEPT !.op = "Next", !.p = rs.p]
         /\ rs' = [rs EXCEPT !.pos = r.pos, !.cursor = IF r.closed THEN "closed" ELSE @])
    /\ UNCHANGED <<db, sample, conf, lengthKnown, hist, parseVars, scriptVars, registryVars, errorVars, procVars>>

\* Row on the iterator, which stands on a row
IterRowCall ==
    \E mode \in DstModes : \E dst \in Dsts(mode, IF mode = "struct" THEN ZeroRecord ELSE 0) :
        /\ rs.iter /\ rs.cursor = "open"
        /\ rs.pos \in 1..Len(rs.p.rows)
        /\ With(rowsIteratorRow(rs.p, rs.pos, dst), LAMBDA r :
             /\ out' = [op |-> "IterRow", p |-> rs.p, before |-> dst, dst |-> r.dst, err |-> r.err]
             /\ rs' = [rs EXCEPT !.cursor = IF r.closed THEN "closed" ELSE @])
        /\ UNCHANGED <<db, sample, conf, lengthKnown, hist, parseVars, scriptVars, registryVars, errorVars, procVars>>

\* Close on the iterator
IterCloseCall ==
    /\ rs.iter /\ rs.cursor = "open"
    /\ With(rowsIteratorClose(rs.p), LAMBDA r :
         /\ out' = [NoOut EXCEPT !.op = "Close", !.p = rs.p, !.err = r.err]
         /\ rs' = [rs EXCEPT !.open = FALSE,
                             !.cursor = IF r.closed THEN "closed" ELSE @])
    /\ UNCHANGED <<db, sample, conf, lengthKnown, hist, parseVars, scriptVars, registryVars, errorVars, procVars>>

NextRows ==
    \/ QueryCall
    \/ RowCall
    \/ RowsCall
    \/ IteratorCall
    \/ IterNextCall
    \/ IterRowCall
    \/ IterCloseCall

SpecRows == InitRows /\ [][NextRows]_vars

\* ------------------------------------------------------------------------
\* The migration of a sized column: the desired schema has a NOT NULL column
\* of size 10, the table a nullable column of that name declared with size 5
\* ------------------------------------------------------------------------

InitSized ==
    /\ db \in { DBWith(sql) : sql \in SizedDDLs }
    /\ sample = SampleSized
    /\ conf \in {NewDefaultDBOptions, WithIgnoreNotFound(NewDefaultDBOptions)}
    /\ lengthKnown \in BOOLEAN
    /\ hist = << >>
    /\ rs = NoRows
    /\ out = NoOut
    /\ ddl = NoText
    /\ doc = NoDoc
    /\ script = NoText /\ run = NoRun
    /\ dbFactories = NoFactories /\ registered = NoRegister
    /\ given = NoGiven /\ returned = NoReturn
    /\ NoProcess

SpecSized == InitSized /\ [][Next]_vars

\* ------------------------------------------------------------------------
\* ormDB.ExecRows: the statements of a script, executed in one transaction
\* ------------------------------------------------------------------------

\* strings.Index(s, c) for a one-character c: the offset of its first
\* occurrence, counted from 0, or -1
Index(s, c) ==
    IF \E i \in 1..Len(s) : s[i] = c
    THEN (CHOOSE i \in 1..Len(s) : s[i] = c /\ \A k \in 1..(i - 1) : s[k] # c) - 1
    ELSE -1

\* strings.Split(s, "\n")
SplitLines(s) ==
    LET nl    == { i \in 1..Len(s) : s[i] = "\n" }
        at(k) == IF k = 0 THEN 0
                 ELSE IF k = Cardinality(nl) + 1 THEN Len(s) + 1
                 ELSE CHOOSE i \in nl : Cardinality({ j \in nl : j < i }) = k - 1
    IN  [k \in 1..(Cardinality(nl) + 1) |-> SubSeq(s, at(k - 1) + 1, at(k) - 1)]

RECURSIVE JoinLines(_)
JoinLines(lines) ==
    IF Len(lines) = 0 THEN << >>
    ELSE IF Len(lines) = 1 THEN lines[1]
    ELSE lines[1] \o <<"\n">> \o JoinLines(Tail(lines))

StatementWords == { <<"S","E","T">>, <<"C","R","E","A","T","E">>,
                    <<"I","N","S","E","R","T">>, <<"D","R","O","P">> }

\* one iteration of the loop of ExecRows over the lines; st is [cmd, in, cmds]
extractStep(line, st) ==
    IF Len(line) = 0 \/ HasPrefix(line, <<"-","-"," ">>) THEN st
    ELSE IF st.in
    THEN With(st.cmd \o <<" ">> \o TrimSpace(line), LAMBDA cmd :
           IF cmd[Len(cmd)] = ";"
           THEN [cmd |-> cmd, in |-> FALSE, cmds |-> Append(st.cmds, cmd)]
           ELSE [st EXCEPT !.cmd = cmd])
    ELSE With(Index(line, " "), LAMBDA n :
           IF n <= 0 THEN st
           ELSE IF SubSeq(line, 1, n) \in StatementWords
           THEN IF line[Len(line)] = ";"
                THEN [cmd |-> line, in |-> FALSE, cmds |-> Append(st.cmds, line)]
                ELSE [cmd |-> line, in |-> TRUE, cmds |-> st.cmds]
           ELSE st)

RECURSIVE extractLoop(_, _, _)
extractLoop(lines, i, st) ==
    IF i > Len(lines) THEN st
    ELSE extractLoop(lines, i + 1, extractStep(lines[i], st))

\* cmds: the statements ExecRows finds in the bytes
extractCmds(bytes) ==
    extractLoop(SplitLines(bytes), 1, [cmd |-> << >>, in |-> FALSE, cmds |-> << >>]).cmds

\* the error of the SQL driver when the environment makes a step fail
EnvErr == <<"d","i","s","k"," ","I","/","O"," ","e","r","r","o","r">>

\* the longest script, in lines
MaxLines == 3

\* the steps the environment can make fail: none, Begin, a statement, Commit
FaultNone == 0
FaultBegin == 1
FaultStmt(i) == 1 + i
FaultCommit == MaxLines + 2

\* the loop of ExecRows over cmds: [failed, executed, err], failed the index
\* of the statement that failed (0: none), executed the statements handed to
\* tx.Exec, err the error returned
execCmds(cmds, fault) ==
    IF \E i \in 1..Len(cmds) : fault = FaultStmt(i)
    THEN With(fault - 1, LAMBDA i :
           [failed |-> i, executed |-> SubSeq(cmds, 1, i),
            err |-> << <<"s","q","l"," ">> \o cmds[i] \o <<"\n","e","r","r"," ">> \o EnvErr >>])
    ELSE [failed |-> 0, executed |-> cmds, err |-> << >>]

\* the deferred function of ExecRows, a faulty variant: the transaction is
\* committed whatever the error
ExecRowsDeferredCommits(err) == "Commit"

\* the deferred function of ExecRows: what it does with the transaction
ExecRowsDeferred(err) == IF err # << >> THEN "Rollback" ELSE "Commit"

\* ormDB.ExecRows(bytes), the environment failing the step fault; stored is
\* what the database keeps of the transaction: the statements that succeeded
\* when the transaction is committed and the commit succeeds, else nothing
ExecRows(bytes, fault) ==
    IF fault = FaultBegin
    THEN [NoRun EXCEPT !.done = TRUE,
                       !.err = << <<"B","e","g","i","n","(",")"," ","e","r","r",":"," ">> \o EnvErr >>]
    ELSE With(extractCmds(bytes), LAMBDA cmds :
         With(execCmds(cmds, fault), LAMBDA r :
         With(ExecRowsDeferred(r.err), LAMBDA end :
           [done |-> TRUE, began |-> TRUE, cmds |-> cmds, executed |-> r.executed,
            failed |-> r.failed,
            committed |-> end = "Commit", rolledBack |-> end = "Rollback",
            err |-> r.err,
            stored |-> IF end = "Commit" /\ fault # FaultCommit
                       THEN (IF r.failed = 0 THEN cmds ELSE SubSeq(cmds, 1, r.failed - 1))
                       ELSE << >>])))

ScriptLines ==
    { <<"C","R","E","A","T","E"," ","a",";">>,
      <<"C","R","E","A","T","E"," ","b">>,
      <<" "," ","x",";">>,
      << >>,
      <<"-","-"," ","c",";">>,
      <<"I","N","S","E","R","T"," ","d",";">>,
      <<"I","N","S","E","R","T">>,
      <<"S","E","L","E","C","T"," ","e",";">>,
      <<"D","R","O","P"," ","a",";">> }

Scripts == { JoinLines(ls) : ls \in UNION { [1..n -> ScriptLines] : n \in 0..MaxLines } }

InitScript ==
    /\ db = NoDB
    /\ sample = SampleA
    /\ conf = NewDefaultDBOptions
    /\ lengthKnown = FALSE
    /\ hist = << >>
    /\ rs = NoRows
    /\ out = NoOut
    /\ ddl = NoText /\ doc = NoDoc
    /\ script \in Scripts
    /\ run = NoRun
    /\ dbFactories = NoFactories /\ registered = NoRegister
    /\ given = NoGiven /\ returned = NoReturn
    /\ NoProcess

ExecRowsCall ==
    /\ ~run.done
    /\ \E fault \in FaultNone..FaultCommit : run' = ExecRows(script, fault)
    /\ UNCHANGED <<db, sample, conf, lengthKnown, hist, rs, out, parseVars, script>>
    /\ UNCHANGED <<registryVars, errorVars, procVars>>

NextScript == ExecRowsCall

SpecScript == InitScript /\ [][NextScript]_vars

\* ------------------------------------------------------------------------
\* The registry of driver factories
\* ------------------------------------------------------------------------

\* Register, a faulty variant: the factory of a registered name is replaced
RegisterOverwrites(factories, name, d) ==
    [dbFactories |-> { e \in factories : e.name # name } \cup {[name |-> name, d |-> d]},
     panic |-> FALSE]

\* Register(name, d) on the registry factories, a set of [name, d] with one
\* entry for a name at most: [dbFactories, panic]
Register(factories, name, d) ==
    IF \E e \in factories : e.name = name
    THEN [dbFactories |-> factories, panic |-> TRUE]
    ELSE [dbFactories |-> factories \cup {[name |-> name, d |-> d]}, panic |-> FALSE]

DriverNames == {"sqlite3", "mysql", "postgres", "mock"}

Factories == {"Sqlite", "other", "another"}

\* the registry when the program starts: init has registered the SQLite driver
InitRegistry ==
    /\ db = NoDB
    /\ sample = SampleA
    /\ conf = NewDefaultDBOptions
    /\ lengthKnown = FALSE
    /\ hist = << >>
    /\ rs = NoRows
    /\ out = NoOut
    /\ ddl = NoText /\ doc = NoDoc
    /\ script = NoText /\ run = NoRun
    /\ dbFactories = Register(NoFactories, "sqlite3", "Sqlite").dbFactories
    /\ registered = NoRegister
    /\ given = NoGiven /\ returned = NoReturn
    /\ NoProcess

\* a call of Register; a panic ends the program
RegisterCall ==
    /\ IF registered = NoRegister THEN TRUE ELSE ~registered[1].panic
    /\ \E name \in DriverNames, d \in Factories :
         With(Register(dbFactories, name, d), LAMBDA r :
           /\ dbFactories' = r.dbFactories
           /\ registered' = <<[name |-> name, d |-> d, panic |-> r.panic]>>)
    /\ UNCHANGED <<db, sample, conf, lengthKnown, hist, rs, out, parseVars, scriptVars>>
    /\ UNCHANGED <<errorVars, procVars>>

NextRegistry == RegisterCall

SpecRegistry == InitRegistry /\ [][NextRegistry]_vars

\* ------------------------------------------------------------------------
\* Options.Error.  An error is behind an interface: << >> is nil, <<e>> holds
\* e = [reason, msg], the reason as the errors package of the API reads it.
\* ------------------------------------------------------------------------

\* errors.IsNotFound
IsNotFound(err) == err # << >> /\ err[1].reason = "NotFound"

\* Options.Error, a faulty variant: NotFound is suppressed whatever the
\* options say
ErrorSuppressesAlways(o, err) ==
    IF err # << >> /\ IsNotFound(err) THEN << >> ELSE err

\* Options.Error
Error(o, err) ==
    IF err # << >> /\ o.ignoreNotFound /\ IsNotFound(err) THEN << >> ELSE err

\* &Options{}
ZeroOptions == [err |-> << >>, table |-> << >>, ignoreNotFound |-> FALSE]

WithTable(o, table) == [o EXCEPT !.table = table]

WithIgnoreNotFoundErr(o) == [o EXCEPT !.ignoreNotFound = TRUE]

ErrorReasons == {"NotFound", "AlreadyExists", "Invalid", "InternalError", "Unknown"}

ErrorMessages == {"object", "table", "sql"}

Errors == {<< >>} \cup { <<[reason |-> r, msg |-> m]>> : r \in ErrorReasons, m \in ErrorMessages }

\* the options of a call: with or without a table, with or without
\* ignore-not-found, with or without an error kept from an option
CallOptions ==
    LET tabled  == {ZeroOptions, WithTable(ZeroOptions, TableName)}
        ignored == tabled \cup { WithIgnoreNotFoundErr(o) : o \in tabled }
    IN  ignored \cup { [o EXCEPT !.err = <<[reason |-> "Invalid", msg |-> "table"]>>] : o \in ignored }

InitError ==
    /\ db = NoDB
    /\ sample = SampleA
    /\ conf = NewDefaultDBOptions
    /\ lengthKnown = FALSE
    /\ hist = << >>
    /\ rs = NoRows
    /\ out = NoOut
    /\ ddl = NoText /\ doc = NoDoc
    /\ script = NoText /\ run = NoRun
    /\ dbFactories = NoFactories /\ registered = NoRegister
    /\ given \in [err : Errors, o : CallOptions]
    /\ returned = NoReturn
    /\ NoProcess

\* o.Error(err)
ErrorCall ==
    /\ ~returned.done
    /\ returned' = [done |-> TRUE, err |-> Error(given.o, given.err)]
    /\ UNCHANGED <<db, sample, conf, lengthKnown, hist, rs, out, parseVars, scriptVars>>
    /\ UNCHANGED <<registryVars, given, procVars>>

NextError == ErrorCall

SpecError == InitError /\ [][NextError]_vars

\* ------------------------------------------------------------------------
\* The DDL parser on its own: the text is drawn at the start and parsed once
\* ------------------------------------------------------------------------

\* the longest generated body of a CREATE TABLE text, in characters
MaxBody == 4

BodyAlphabet == {"a", ",", "(", ")", "'", "\""}

Bodies == UNION { [1..n -> BodyAlphabet] : n \in 0..MaxBody }

\* CREATE TABLE `t` (body)
BodyText(body) ==
    <<"C","R","E","A","T","E"," ","T","A","B","L","E"," ",BT,"t",BT>>
        \o <<" ", "(">> \o body \o <<")">>

BodyOf(text) == SubSeq(text, 19, Len(text) - 1)

\* the texts of a table with two columns, a default value that holds a comma
\* and one table constraint: q quotes the column names
TokenQuotes == {<<BT>>, <<"\"">>, << >>}

TokenDefaults == { <<"'","x",",","y","'">>,
                   <<"'",",","'">>,
                   <<"'","x","'","'",",","y","'">>,
                   <<"'","(","x",",","y","'">>,
                   <<"\"","x",",","y","\"">> }

TokenConstraints ==
    { <<"C","O","N","S","T","R","A","I","N","T"," ","\"","p","k","\""," ","P","R","I","M","A","R","Y"," ","K","E","Y","(",BT,"a",BT,")">>,
      <<"P","R","I","M","A","R","Y"," ","K","E","Y"," ","(",BT,"a",BT,",",BT,"b",BT,")">>,
      <<"C","H","E","C","K"," ","(",BT,"a",BT," ",">"," ","0",")">>,
      <<"c","o","n","s","t","r","a","i","n","t"," ","p","k"," ","u","n","i","q","u","e"," ","(","a",","," ","b",")">> }

TokenClauses(q, dflt, cons) ==
    << q \o <<"a">> \o q \o <<" ","I","N","T">>,
       q \o <<"b">> \o q \o <<" ","T","E","X","T"," ","D","E","F","A","U","L","T"," ">> \o dflt,
       cons >>

\* CREATE TABLE "t" (clause, clause, clause)
TokenText(q, dflt, cons) ==
    With(TokenClauses(q, dflt, cons), LAMBDA cl :
        <<"C","R","E","A","T","E"," ","T","A","B","L","E"," ","\"","t","\"">>
            \o <<" ", "(">> \o cl[1] \o <<",", " ">> \o cl[2] \o <<",", " ">> \o cl[3]
            \o <<")">>)

TokenTexts ==
    { TokenText(q, dflt, cons) : q \in TokenQuotes, dflt \in TokenDefaults,
                                 cons \in TokenConstraints }

InitParse ==
    /\ db = NoDB
    /\ sample = SampleA
    /\ conf = NewDefaultDBOptions
    /\ lengthKnown = FALSE
    /\ hist = << >>
    /\ rs = NoRows
    /\ out = NoOut
    /\ ddl \in { BodyText(body) : body \in Bodies } \cup TokenTexts
    /\ doc = NoDoc
    /\ script = NoText /\ run = NoRun
    /\ dbFactories = NoFactories /\ registered = NoRegister
    /\ given = NoGiven /\ returned = NoReturn
    /\ NoProcess

\* sqliteParseDDL(ddl), and getColumns of the document when there is one
ParseCall ==
    /\ ~doc.done
    /\ With(sqliteParseDDL(ddl), LAMBDA d :
         doc' = [done |-> TRUE, err |-> d.err, head |-> d.head, fields |-> d.fields,
                 columns |-> IF d.err THEN << >> ELSE getColumns(d.fields),
                 again |-> NoAgain])
    /\ UNCHANGED <<db, sample, conf, lengthKnown, hist, rs, out, ddl>>
    /\ UNCHANGED <<scriptVars, registryVars, errorVars, procVars>>

\* compile of the document sqliteParseDDL returned, and sqliteParseDDL of the
\* text compile wrote
CompileCall ==
    /\ doc.done /\ ~doc.err /\ ~doc.again.done
    /\ With(compile(doc), LAMBDA text :
       With(sqliteParseDDL(text), LAMBDA d :
         doc' = [doc EXCEPT !.again = [done |-> TRUE, text |-> text, err |-> d.err,
                                       head |-> d.head, fields |-> d.fields]]))
    /\ UNCHANGED <<db, sample, conf, lengthKnown, hist, rs, out, ddl>>
    /\ UNCHANGED <<scriptVars, registryVars, errorVars, procVars>>

NextParse == ParseCall \/ CompileCall

SpecParse == InitParse /\ [][NextParse]_vars

\* ------------------------------------------------------------------------
\* Properties of the migration history
\* ------------------------------------------------------------------------

\* a database holds the migrated table
HadTable(d) == TableName \in DOMAIN d.tables

\* the positions of a call's log that hold a statement handed to Exec
Issued(c) == { k \in 1..Len(c.log) : c.log[k].stmt.kind \in DDLKinds }

\* the positions of a call's log that hold a step that failed
FailedSteps(c) == { k \in 1..Len(c.log) : ~c.log[k].ok }

\* the positions of a call's log where the driver entered the given method
Entered(c, method) == { k \in 1..Len(c.log) : c.log[k].stmt.kind = method }

\* the rows table t held in d0 are the rows it holds in d1, value by value in
\* the columns both have
RowsKept(d0, d1) ==
    LET r0 == d0.tables[TableName].rows
        r1 == d1.tables[TableName].rows
    IN  /\ Len(r1) = Len(r0)
        /\ \A k \in 1..Len(r0) :
              \A col \in DOMAIN r0[k] \cap DOMAIN r1[k] : r1[k][col] = r0[k][col]

\* table t of d has every column of the desired schema
HasDesiredColumns(d) ==
    \A k \in 1..Len(sample) : sample[k].name \in dbColumnNames(d.tables[TableName])

\* C1: a second AutoMigrate call that directly follows a successful one, with
\* the same desired schema and nothing failing, issues no DDL statement at all
C1_SecondCallIssuesNoDDL ==
    \A k \in 1..(Len(hist) - 1) :
        ( /\ hist[k].op = "AutoMigrate" /\ hist[k].err = Nil
          /\ hist[k + 1].op = "AutoMigrate" /\ hist[k + 1].fault = 0 )
        => Issued(hist[k + 1]) = {}

\* C2: when an AutoMigrate call was interrupted by a failing step, although
\* the migration can succeed from where it started, the next AutoMigrate call
\* (nothing failing) returns no error, leaves table t with every desired
\* column and keeps all the rows the table had before the interrupted call
C2_RetryCompletes ==
    \A k \in 1..(Len(hist) - 1) :
        ( /\ hist[k].op = "AutoMigrate" /\ hist[k].fault # 0 /\ hist[k].err # Nil
          /\ hist[k + 1].op = "AutoMigrate" /\ hist[k + 1].fault = 0
          /\ AutoMigrate([Machine(0) EXCEPT !.db = hist[k].pre], sample).err = Nil )
        => /\ hist[k + 1].err = Nil
           /\ HadTable(hist[k + 1].post)
           /\ HasDesiredColumns(hist[k + 1].post)
           /\ HadTable(hist[k].pre) => RowsKept(hist[k].pre, hist[k + 1].post)

\* C7: after a successful AutoMigrate call on an existing table, every column
\* the table had that the desired schema does not name is still there, with
\* the same definition and the same value in every row
C7_ColumnsKept ==
    \A k \in 1..Len(hist) :
        ( /\ hist[k].op = "AutoMigrate" /\ hist[k].err = Nil /\ hist[k].fault = 0
          /\ HadTable(hist[k].pre) )
        => /\ HadTable(hist[k].post)
           /\ LET before == dbColumns(hist[k].pre.tables[TableName])
                  after  == dbColumns(hist[k].post.tables[TableName])
              IN  \A i \in 1..Len(before) :
                     (\A j \in 1..Len(sample) : sample[j].name # before[i].name)
                     => /\ \E j \in 1..Len(after) :
                              /\ after[j].name = before[i].name
                              /\ TrimSpace(after[j].decl) = TrimSpace(before[i].decl)
                        /\ RowsKept(hist[k].pre, hist[k].post)

\* C9: when a step of an AutoMigrate call fails (option parsing,
\* introspection, or a statement of AddColumn, AlterColumn or CreateIndex),
\* the call returns an error and hands no statement to Exec after that step
C9_NoDDLAfterFailure ==
    \A k \in 1..Len(hist) :
        hist[k].op = "AutoMigrate"
        => \A i \in FailedSteps(hist[k]) :
              /\ hist[k].err # Nil
              /\ \A j \in Issued(hist[k]) : j <= i

\* the statements a call handed to Exec, in the order of the log
RECURSIVE Statements(_)
Statements(log) ==
    IF Len(log) = 0 THEN << >>
    ELSE (IF Head(log).stmt.kind \in DDLKinds THEN <<Head(log)>> ELSE << >>)
         \o Statements(Tail(log))

\* st is a completed recreation of table t: CREATE of the temporary table,
\* the copy of the rows into it, DROP of t, RENAME of the temporary table to
\* t, each one successful and nothing else
IsRecreation(st) ==
    /\ Len(st) = 4
    /\ \A i \in 1..4 : st[i].ok
    /\ st[1].stmt.kind = "CREATE TABLE"
    /\ dbParse(st[1].stmt.a1).name = TableName \o TempSuffix
    /\ st[2].stmt.kind = "INSERT"
    /\ st[2].stmt.a1 = TableName \o TempSuffix /\ st[2].stmt.a3 = TableName
    /\ st[3].stmt.kind = "DROP TABLE" /\ st[3].stmt.a1 = TableName
    /\ st[4].stmt.kind = "RENAME"
    /\ st[4].stmt.a1 = TableName \o TempSuffix /\ st[4].stmt.a2 = TableName

\* in no call is a DROP handed to Exec before a copy of the rows succeeded
CopyBeforeDrop ==
    \A k \in 1..Len(hist) :
        \A i \in Entered(hist[k], "DROP TABLE") :
            \E j \in 1..(i - 1) :
                hist[k].log[j].stmt.kind = "INSERT" /\ hist[k].log[j].ok

\* C5, as stated: every successful recreation run (an AlterColumn call that
\* returns no error) executed exactly CREATE of the temporary table, INSERT,
\* DROP, RENAME in this order, and no DROP comes before a successful copy
C5_AlwaysFourStatements ==
    /\ \A k \in 1..Len(hist) :
          (hist[k].op = "AlterColumn" /\ hist[k].err = Nil)
          => IsRecreation(Statements(hist[k].log))
    /\ CopyBeforeDrop

\* C5, amended: a successful recreation run executed exactly CREATE of the
\* temporary table, INSERT, DROP, RENAME in this order, unless it found no
\* DDL for the table (the table is missing and not-found is ignored), and
\* then it executed nothing; no DROP comes before a successful copy
C5_RecreationOrder ==
    /\ \A k \in 1..Len(hist) :
          (hist[k].op = "AlterColumn" /\ hist[k].err = Nil)
          => \/ IsRecreation(Statements(hist[k].log))
             \/ /\ Statements(hist[k].log) = << >>
                /\ ~HadTable(hist[k].pre)
                /\ conf.ignoreNotFound
    /\ CopyBeforeDrop

\* C5, witness: a recreation run returned no error after its four statements
C5_Recreated ==
    \E k \in 1..Len(hist) :
        /\ hist[k].op = "AlterColumn" /\ hist[k].err = Nil
        /\ Len(Statements(hist[k].log)) = 4

\* C6, as stated: in a recreation run that fails on a table that existed
\* before, no statement is executed after the failing one, and table t exists
\* afterwards exactly if the DROP step was not reached
C6_TableLeftIffBeforeDrop ==
    \A k \in 1..Len(hist) :
        (hist[k].op = "AlterColumn" /\ hist[k].err # Nil /\ HadTable(hist[k].pre))
        => /\ \A i \in FailedSteps(hist[k]) : \A j \in Issued(hist[k]) : j <= i
           /\ HadTable(hist[k].post) <=> Entered(hist[k], "DROP TABLE") = {}

\* C6, amended: in a recreation run a failing statement is the last one
\* executed and the run returns an error; when a run fails on a table that
\* existed before, the table exists afterwards exactly if the DROP did not
\* succeed (the failure is in fetching the DDL, rewriting it, CREATE, INSERT
\* or the DROP itself)
C6_AbortsAtFailure ==
    \A k \in 1..Len(hist) :
        hist[k].op = "AlterColumn"
        => /\ \A i \in FailedSteps(hist[k]) :
                 /\ hist[k].err # Nil
                 /\ \A j \in Issued(hist[k]) : j <= i
           /\ (hist[k].err # Nil /\ HadTable(hist[k].pre))
              => ( HadTable(hist[k].post)
                   <=> ~\E i \in Entered(hist[k], "DROP TABLE") : hist[k].log[i].ok )

\* C6, witness: a recreation run failed at its DROP, and table t is in place
C6_DropFailed ==
    \E k \in 1..Len(hist) :
        /\ hist[k].op = "AlterColumn" /\ hist[k].err # Nil
        /\ \E i \in Entered(hist[k], "DROP TABLE") : ~hist[k].log[i].ok
        /\ HadTable(hist[k].post)

\* the column steps of a call: <<method, field>> for each AddColumn and
\* AlterColumn the driver entered, in the order of the log
RECURSIVE ColumnSteps(_)
ColumnSteps(log) ==
    IF Len(log) = 0 THEN << >>
    ELSE (IF Head(log).stmt.kind \in {"AddColumn", "AlterColumn"}
          THEN << <<Head(log).stmt.kind, Head(log).stmt.a1>> >> ELSE << >>)
         \o ColumnSteps(Tail(log))

\* the columns of table t as a call was told: the introspected attributes of
\* each column, or no column at all when the introspection query failed
Introspected(c) ==
    IF \E i \in Entered(c, "SELECT *") : c.log[i].ok
    THEN LET cols == dbColumns(c.pre.tables[TableName])
         IN  [i \in 1..Len(cols) |-> convertFieldOptions(cols[i], lengthKnown)]
    ELSE << >>

\* size or nullability of a desired field f differ from those of the actual
\* column a; guarded: the size counts only when the actual size is known,
\* the nullability only when the desired one is specified
Differs(f, a, guarded) ==
    \/ /\ guarded => a.size # NilPtr
       /\ Int64Value(f.size) # Int64Value(a.size)
    \/ /\ guarded => f.notNull # NilPtr
       /\ BoolValue(f.notNull) # BoolValue(a.notNull)

\* the column steps the desired fields from the i-th on call for
RECURSIVE ExpectedSteps(_, _, _)
ExpectedSteps(actual, i, guarded) ==
    IF i > Len(sample) THEN << >>
    ELSE LET f     == sample[i]
             named == { j \in 1..Len(actual) : actual[j].name = f.name }
             first == CHOOSE j \in named : \A h \in named : j <= h
         IN  (IF named = {} THEN << <<"AddColumn", f.name>> >>
              ELSE IF Differs(f, actual[first], guarded)
              THEN << <<"AlterColumn", f.name>> >> ELSE << >>)
             \o ExpectedSteps(actual, i + 1, guarded)

IsPrefix(s, t) == Len(s) <= Len(t) /\ s = SubSeq(t, 1, Len(s))

\* C8, as stated: a successful AutoMigrate call on an existing table, nothing
\* failing, issues for each desired column AddColumn if the table has no
\* column of that name, and otherwise AlterColumn exactly if the desired size
\* differs from the actual size or the desired nullability from the actual
C8_AlterIffDiffers ==
    \A k \in 1..Len(hist) :
        ( /\ hist[k].op = "AutoMigrate" /\ hist[k].err = Nil /\ hist[k].fault = 0
          /\ HadTable(hist[k].pre) )
        => ColumnSteps(hist[k].log) = ExpectedSteps(Introspected(hist[k]), 1, FALSE)

\* C8, amended: an AutoMigrate call on an existing table issues for each
\* desired column, in order and until a step fails, AddColumn if no
\* introspected column has that name, and otherwise AlterColumn exactly if
\* the actual size is known and differs from the desired size or the desired
\* nullability is specified and differs from the actual
C8_Reconciles ==
    \A k \in 1..Len(hist) :
        ( /\ hist[k].op = "AutoMigrate" /\ HadTable(hist[k].pre)
          /\ hist[k].log[1].ok )
        => LET steps  == ColumnSteps(hist[k].log)
               expect == ExpectedSteps(Introspected(hist[k]), 1, TRUE)
           IN  /\ IsPrefix(steps, expect)
               /\ hist[k].err = Nil => steps = expect
               /\ steps # expect => \E i \in FailedSteps(hist[k]) : TRUE

\* C8, witness: a successful AutoMigrate call altered one column and added
\* another one
C8_AddedAndAltered ==
    \E k \in 1..Len(hist) :
        /\ hist[k].op = "AutoMigrate" /\ hist[k].err = Nil /\ hist[k].fault = 0
        /\ HadTable(hist[k].pre)
        /\ Entered(hist[k], "AddColumn") # {}
        /\ Entered(hist[k], "AlterColumn") # {}

\* the names of the desired fields flagged as indexed
IndexedNames == { sample[i].name : i \in { j \in 1..Len(sample) : sample[j].indexKey } }

\* C10: an AutoMigrate call that finds no table t (its options parsed) hands
\* CREATE TABLE for t to Exec first, enters neither AddColumn nor AlterColumn
\* and introspects nothing; if the CREATE fails no index is created and the
\* error is returned; otherwise only CREATE INDEX statements follow, one for
\* every indexed desired column when none of them fails, and a failing one is
\* the last statement and its error returned
C10_CreatesTableThenIndexes ==
    \A k \in 1..Len(hist) :
        ( /\ hist[k].op = "AutoMigrate" /\ ~HadTable(hist[k].pre)
          /\ hist[k].log[1].ok )
        => LET c  == hist[k]
               st == Statements(c.log)
           IN  /\ Len(st) >= 1
               /\ st[1].stmt.kind = "CREATE TABLE"
               /\ dbParse(st[1].stmt.a1).name = TableName
               /\ Entered(c, "AddColumn") = {} /\ Entered(c, "AlterColumn") = {}
               /\ Entered(c, "SELECT *") = {}
               /\ \A i \in 2..Len(st) : st[i].stmt.kind = "CREATE INDEX"
               /\ ~st[1].ok => /\ Len(st) = 1
                               /\ c.err # Nil
                               /\ c.post.indexes = c.pre.indexes
               /\ \A i \in 2..Len(st) : ~st[i].ok => (i = Len(st) /\ c.err # Nil)
               /\ (\A i \in 1..Len(st) : st[i].ok)
                  => /\ c.err = Nil
                     /\ { st[i].stmt.a1 : i \in 2..Len(st) } = IndexedNames
                     /\ Len(st) - 1 = Cardinality(IndexedNames)
                     /\ \A n \in IndexedNames : HasIndex(c.post, n, TableName)

\* C10, witness: an AutoMigrate call found no table, created it and then an
\* index for each of two indexed columns
C10_CreatedWithIndexes ==
    \E k \in 1..Len(hist) :
        /\ hist[k].op = "AutoMigrate" /\ ~HadTable(hist[k].pre)
        /\ hist[k].err = Nil
        /\ Cardinality(Entered(hist[k], "CREATE INDEX")) = 2
        /\ HadTable(hist[k].post)

\* ------------------------------------------------------------------------
\* Properties of the fetches
\* ------------------------------------------------------------------------

\* C3: Rows never appends more rows to its destination than the cap of the
\* Rows object, whatever cap the connection was opened with and whether the
\* destination holds scalars or records
C3_RowsWithinCap ==
    out.op = "Rows" => Len(out.dst.value) <= out.p.maxRows

\* C4: Row on a result set without rows returns NotFound when
\* ignore-not-found is off, and returns no error and leaves the destination
\* as it was when ignore-not-found is on
C4_RowOnEmptyResult ==
    (out.op = "Row" /\ out.p.err = Nil /\ Len(out.p.rows) = 0)
    => IF out.p.ignoreNotFound
       THEN out.err = Nil /\ out.dst = out.before
       ELSE out.err = "NotFound" /\ out.dst = out.before

\* C4, witness: Row found no row on a connection opened with
\* ignore-not-found, and returned no error
C4_EmptyIgnored ==
    /\ out.op = "Row" /\ out.p.err = Nil /\ Len(out.p.rows) = 0
    /\ out.p.ignoreNotFound /\ conf.ignoreNotFound
    /\ out.err = Nil

\* ------------------------------------------------------------------------
\* Properties of the migration of a sized column
\* ------------------------------------------------------------------------

\* the call found the scenario: column a of table t is nullable and declared
\* with size 5, the desired a is NOT NULL with size 10, and every other
\* desired column is in the table with the desired size and nullability
SizedScenario(c) ==
    /\ HadTable(c.pre)
    /\ LET cols == dbColumns(c.pre.tables[TableName])
       IN  /\ \E i \in 1..Len(cols) :
                 cols[i].name = ColA /\ ~cols[i].notNull /\ cols[i].length = Ptr(5)
           /\ sample[1].name = ColA /\ sample[1].size = Ptr(10)
           /\ sample[1].notNull = Ptr(TRUE)
           /\ \A j \in 2..Len(sample) :
                 \E i \in 1..Len(cols) :
                     /\ cols[i].name = sample[j].name
                     /\ ~Differs(sample[j], convertFieldOptions(cols[i], TRUE), FALSE)

\* every column of table t other than the named one has in d1 the definition
\* and the row values it had in d0
OthersKept(d0, d1, name) ==
    /\ HadTable(d1)
    /\ LET before == dbColumns(d0.tables[TableName])
           after  == dbColumns(d1.tables[TableName])
       IN  \A i \in 1..Len(before) :
              before[i].name # name
              => \E j \in 1..Len(after) :
                    /\ after[j].name = before[i].name
                    /\ TrimSpace(after[j].decl) = TrimSpace(before[i].decl)
    /\ LET r0 == d0.tables[TableName].rows
           r1 == d1.tables[TableName].rows
       IN  /\ Len(r1) = Len(r0)
           /\ \A k \in 1..Len(r0) :
                 \A col \in DOMAIN r0[k] \ {name} :
                    col \in DOMAIN r1[k] /\ r1[k][col] = r0[k][col]

\* C11: an AutoMigrate call (nothing failing) that finds the desired NOT NULL
\* column a of size 10 as a nullable column of size 5 enters AlterColumn
\* exactly once, for a, enters no other column operation, and every other
\* column of the table keeps its definition and its row data
C11_OneAlterOthersKept ==
    \A k \in 1..Len(hist) :
        ( /\ hist[k].op = "AutoMigrate" /\ hist[k].fault = 0
          /\ SizedScenario(hist[k]) )
        => /\ ColumnSteps(hist[k].log) = << <<"AlterColumn", ColA>> >>
           /\ OthersKept(hist[k].pre, hist[k].post, ColA)

\* ------------------------------------------------------------------------
\* Properties of the index reconciliation
\* ------------------------------------------------------------------------

\* the names for which a call entered CreateIndex
IndexesEntered(c) == { c.log[i].stmt.a1 : i \in Entered(c, "CreateIndex") }

\* table t had an index of that name when the call began to reconcile the
\* indexes: it has one afterwards that no statement of the call created
IndexedBefore(c, name) ==
    /\ \E x \in c.post.indexes : x.name = name /\ x.tbl = TableName
    /\ ~\E i \in Entered(c, "CREATE INDEX") : c.log[i].ok /\ c.log[i].stmt.a1 = name

\* the positions of a call's log that belong to the reconciliation of the
\* table and its columns
ColumnWork(c) ==
    { i \in 1..Len(c.log) :
        c.log[i].stmt.kind \in {"CreateTable", "AddColumn", "AlterColumn", "SELECT sql",
                                "CREATE TABLE", "ADD COLUMN", "INSERT", "DROP TABLE",
                                "RENAME"} }

\* C12: in an AutoMigrate call CreateIndex is entered only after all the work
\* on the table and its columns, which then is complete and without a failed
\* statement; it is entered only for desired columns flagged as indexed that
\* had no index, and, when the call returns no error, for every such column
C12_IndexesAfterColumns ==
    \A k \in 1..Len(hist) :
        (hist[k].op = "AutoMigrate" /\ hist[k].log[1].ok)
        => LET c == hist[k]
           IN  /\ \A i \in Entered(c, "CreateIndex") :
                     /\ \A j \in ColumnWork(c) : j < i /\ c.log[j].ok
                     /\ HadTable(c.pre)
                        => ColumnSteps(c.log) = ExpectedSteps(Introspected(c), 1, TRUE)
               /\ IndexesEntered(c) \subseteq { n \in IndexedNames : ~IndexedBefore(c, n) }
               /\ c.err = Nil
                  => IndexesEntered(c) = { n \in IndexedNames : ~IndexedBefore(c, n) }
               /\ \A n \in IndexesEntered(c) :
                     Cardinality({ i \in Entered(c, "CreateIndex") : c.log[i].stmt.a1 = n }) = 1

\* C12, witness: a successful AutoMigrate call created an index, and the next
\* successful one found it and entered no CreateIndex
C12_IndexFound ==
    \E k \in 2..Len(hist) :
        /\ hist[k - 1].op = "AutoMigrate" /\ hist[k - 1].err = Nil
        /\ HadTable(hist[k - 1].pre)
        /\ Entered(hist[k - 1], "AddColumn") \cup Entered(hist[k - 1], "AlterColumn") # {}
        /\ Entered(hist[k - 1], "CreateIndex") # {}
        /\ hist[k].op = "AutoMigrate" /\ hist[k].err = Nil /\ hist[k].fault = 0
        /\ Entered(hist[k], "CreateIndex") = {}
        /\ IndexedNames # {}

\* ------------------------------------------------------------------------
\* Properties of the DDL parser
\* ------------------------------------------------------------------------

\* the example of the tokenizer's description:
\* CREATE TABLE "t" (`a` INT, `b` TEXT DEFAULT 'x,y', CONSTRAINT "pk" PRIMARY KEY(`a`))
SpecExample ==
    TokenText(<<BT>>, <<"'","x",",","y","'">>,
              <<"C","O","N","S","T","R","A","I","N","T"," ","\"","p","k","\""," ","P","R","I","M","A","R","Y"," ","K","E","Y","(",BT,"a",BT,")">>)

\* C13: a comma inside a quoted value does not separate clauses: the text of a
\* table with two column clauses, the second with a default value that holds
\* a comma, and one constraint clause parses to exactly these 3 clauses, and
\* getColumns returns the names of the two columns a and b, in the order of
\* their declaration, without the constraint clause
C13_QuotedCommaKept ==
    \A q \in TokenQuotes, dflt \in TokenDefaults, cons \in TokenConstraints :
        (doc.done /\ ddl = TokenText(q, dflt, cons))
            => /\ ~doc.err
               /\ Len(doc.fields) = 3
               /\ doc.fields = TokenClauses(q, dflt, cons)
               /\ doc.columns = << <<BT, "a", BT>>, <<BT, "b", BT>> >>

\* C13, its case: the example of the description has been parsed to 3 clauses
C13_ExampleParsed ==
    /\ doc.done
    /\ ddl = SpecExample
    /\ Len(doc.fields) = 3
    /\ doc.fields[2] = <<BT,"b",BT," ","T","E","X","T"," ","D","E","F","A","U","L","T"," ","'","x",",","y","'">>
    /\ Len(doc.columns) = 2

\* the brackets and quotes of a body as SQL reads them: a quoted region ends
\* at the quote character that opened it
SqlScan(body) ==
    Scan("dbSplit", body, 1, Len(body),
         [depth |-> 0, inQuote |-> Nil, cur |-> << >>, clauses |-> << >>,
          err |-> FALSE, skip |-> FALSE])

\* the bracket depth goes negative outside quotes, or is not zero at the end
UnbalancedBrackets(body) == With(SqlScan(body), LAMBDA t : t.err \/ t.depth # 0)

\* a quote is opened and not closed before the end
UnbalancedQuotes(body) == With(SqlScan(body), LAMBDA t : ~t.err /\ t.inQuote # Nil)

\* C14: sqliteParseDDL returns an error for every body whose brackets are
\* unbalanced (the depth goes negative outside quotes, or is not zero at the
\* end), and no error for every body whose brackets and quotes are balanced
C14_ErrorIffUnbalancedBrackets ==
    doc.done =>
        /\ UnbalancedBrackets(BodyOf(ddl)) => doc.err
        /\ (~UnbalancedBrackets(BodyOf(ddl)) /\ ~UnbalancedQuotes(BodyOf(ddl))) => ~doc.err

\* C15: sqliteParseDDL returns an error, and no document, for a body in which
\* a quote is opened and not closed before the end of the input
C15_OpenQuoteRejected ==
    (doc.done /\ UnbalancedQuotes(BodyOf(ddl))) => doc.err

\* ------------------------------------------------------------------------
\* Properties of ExecRows
\* ------------------------------------------------------------------------

\* C16: ExecRows commits its transaction if and only if every statement it
\* found executed successfully; when a statement fails no later statement is
\* executed, the transaction is rolled back, nothing of the earlier statements
\* stays in the database, and the error returned holds the text of the
\* statement that failed
C16_AllOrNothing ==
    (run.done /\ run.began) =>
        /\ run.committed <=> run.failed = 0
        /\ run.failed = 0 => run.executed = run.cmds /\ ~run.rolledBack /\ run.err = << >>
        /\ run.failed # 0 =>
              /\ run.executed = SubSeq(run.cmds, 1, run.failed)
              /\ run.rolledBack
              /\ run.stored = << >>
              /\ run.err # << >>
              /\ Contains(run.err[1], run.cmds[run.failed])
        /\ run.stored # << >> => run.stored = run.cmds

\* C16, its case: the second of three statements failed: the third was not
\* executed and the first is not in the database
C16_SecondFailed ==
    /\ run.done
    /\ Len(run.cmds) = 3
    /\ run.failed = 2
    /\ Len(run.executed) = 2
    /\ run.rolledBack
    /\ run.stored = << >>

\* ------------------------------------------------------------------------
\* Properties of the registry
\* ------------------------------------------------------------------------

\* C17: a call of Register with a name that is registered panics and leaves
\* the registry as it was: the factory of that name is still the one
\* registered first, no entry is ever replaced or removed, and a name has one
\* factory at most
C17_DuplicatePanics ==
    [][ IF registered' = NoRegister THEN TRUE
        ELSE /\ (\E e \in dbFactories : e.name = registered'[1].name)
                   => registered'[1].panic /\ dbFactories' = dbFactories
             /\ \A e \in dbFactories : e \in dbFactories'
             /\ \A e1, e2 \in dbFactories' : e1.name = e2.name => e1 = e2 ]_vars

\* C17, its case: Register has panicked on a registered name, called with
\* another factory than the one the registry holds for it
C17_Panicked ==
    /\ registered # NoRegister
    /\ registered[1].panic
    /\ Cardinality(dbFactories) >= 2
    /\ \E e \in dbFactories : e.name = registered[1].name /\ e.d # registered[1].d

\* ------------------------------------------------------------------------
\* Properties of the binding of rows into records
\* ------------------------------------------------------------------------

\* the record a row binds to when every column is decoded (a NULL cell leaves
\* its field as it was)
FullRecord(row) ==
    IF row.null THEN [col |-> row.value, doc |-> 0, ref |-> NilPtr]
    ELSE [col |-> row.value, doc |-> row.value, ref |-> Ptr(row.value)]

\* C18: a fetch into a record destination that returns no error has bound
\* every record it delivers in full: a scan failure or a JSON decode failure
\* of a column is returned as an error by Row and by Rows, never passed over
\* with a record left unbound or partly bound
C18_DecodeFailureReturned ==
    (out.op \in {"Row", "Rows"} /\ out.before.mode = "struct" /\ out.err = Nil)
    => IF out.op = "Row"
       THEN Len(out.p.rows) > 0 => out.dst.value = FullRecord(out.p.rows[1])
       ELSE \A i \in 1..Len(out.dst.value) : out.dst.value[i] = FullRecord(out.p.rows[i])

\* ------------------------------------------------------------------------
\* Properties of the copy of the rows in a recreation
\* ------------------------------------------------------------------------

\* the columns getColumns finds in a CREATE TABLE text
ColumnsOfDDL(sql) == getColumns(sqliteParseDDL(sql).fields)

\* the positions of the copies of rows in the log of a call
InsertSteps(c) == { i \in 1..Len(c.log) : c.log[i].stmt.kind = "INSERT" }

RecreateOps == {"AlterColumn", "DropColumn"}

\* C19, as stated: the columns of the INSERT of a recreation are the columns
\* of the table's DDL as it was before the caller's mutation
C19_ColumnsBeforeMutation ==
    \A k \in 1..Len(hist) :
        hist[k].op \in RecreateOps
        => \A i \in InsertSteps(hist[k]) :
              hist[k].log[i].stmt.a2 = ColumnsOfDDL(hist[k].pre.tables[TableName].sql)

\* C19, amended: the columns of the INSERT of a recreation are the columns of
\* the DDL after the caller's mutation, the DDL the temporary table was just
\* created with
C19_ColumnsAfterMutation ==
    \A k \in 1..Len(hist) :
        hist[k].op \in RecreateOps
        => \A i \in InsertSteps(hist[k]) :
              /\ i > 1
              /\ hist[k].log[i - 1].stmt.kind = "CREATE TABLE"
              /\ hist[k].log[i - 1].ok
              /\ hist[k].log[i].stmt.a2 = ColumnsOfDDL(hist[k].log[i - 1].stmt.a1)

\* C19, its case: DropColumn has copied the rows of a table it took a column
\* from, and the copy succeeded
C19_CopiedWithoutDropped ==
    \E k \in 1..Len(hist) :
        /\ hist[k].op = "DropColumn"
        /\ \E i \in InsertSteps(hist[k]) :
              /\ hist[k].log[i].ok
              /\ hist[k].log[i].stmt.a2 # ColumnsOfDDL(hist[k].pre.tables[TableName].sql)

\* ------------------------------------------------------------------------
\* Properties of Options.Error
\* ------------------------------------------------------------------------

\* C20: Options.Error returns nil exactly when the error is nil, or
\* ignore-not-found is set and the error is NotFound; every other error is
\* returned as it was given, whatever ignore-not-found says
C20_OnlyNotFoundSuppressed ==
    returned.done =>
        /\ returned.err = << >>
              <=> (given.err = << >> \/ (given.o.ignoreNotFound /\ IsNotFound(given.err)))
        /\ returned.err # << >> => returned.err = given.err

\* C20, its case: a NotFound error was suppressed under ignore-not-found
C20_Suppressed ==
    /\ returned.done
    /\ given.err # << >>
    /\ IsNotFound(given.err)
    /\ given.o.ignoreNotFound
    /\ returned.err = << >>

\* ------------------------------------------------------------------------
\* Properties of the rewriting of a table's DDL
\* ------------------------------------------------------------------------

\* the clause AlterColumn writes for a field of the desired schema
DesiredClause(field) ==
    <<BT>> \o field \o <<BT, " ">> \o FullDataTypeOf(tableFieldLookup(sample, field))

\* C21: an AlterColumn call that succeeds for a column the table has leaves
\* the table with that column's clause replaced by the desired definition,
\* wherever the clause stands, and with every other column's clause and row
\* values as they were
C21_OneClauseRewritten ==
    \A k \in 1..Len(hist) :
        ( /\ hist[k].op = "AlterColumn" /\ hist[k].err = Nil
          /\ HadTable(hist[k].pre)
          /\ HasField(sample, hist[k].field)
          /\ hist[k].field \in dbColumnNames(hist[k].pre.tables[TableName]) )
        => /\ HadTable(hist[k].post)
           /\ LET after == dbColumns(hist[k].post.tables[TableName])
              IN  \E j \in 1..Len(after) :
                     /\ after[j].name = hist[k].field
                     /\ TrimSpace(after[j].decl) = DesiredClause(hist[k].field)
           /\ OthersKept(hist[k].pre, hist[k].post, hist[k].field)

\* C22: a DropColumn call that succeeds for a column the table has leaves the
\* table without that column and with every other column, each with the clause
\* and the row values it had, wherever the dropped column stood
C22_OnlyNamedDropped ==
    \A k \in 1..Len(hist) :
        ( /\ hist[k].op = "DropColumn" /\ hist[k].err = Nil
          /\ HadTable(hist[k].pre)
          /\ hist[k].field \in dbColumnNames(hist[k].pre.tables[TableName]) )
        => /\ HadTable(hist[k].post)
           /\ hist[k].field \notin dbColumnNames(hist[k].post.tables[TableName])
           /\ OthersKept(hist[k].pre, hist[k].post, hist[k].field)

\* C23: after a recreation that returned no error and executed its
\* statements, table t exists, no table t__temp exists, the CREATE statement
\* named t__temp and not t, and every row of t is in the final table with
\* the value it had in every column the new DDL has
C23_RecreatedInPlace ==
    \A k \in 1..Len(hist) :
        ( /\ hist[k].op \in RecreateOps /\ hist[k].err = Nil
          /\ Statements(hist[k].log) # << >> )
        => /\ HadTable(hist[k].post)
           /\ (TableName \o TempSuffix) \notin DOMAIN hist[k].post.tables
           /\ \A i \in 1..Len(hist[k].log) :
                 hist[k].log[i].stmt.kind = "CREATE TABLE"
                 => dbParse(hist[k].log[i].stmt.a1).name = TableName \o TempSuffix
           /\ LET r0 == hist[k].pre.tables[TableName].rows
                  r1 == hist[k].post.tables[TableName].rows
              IN  /\ Len(r1) = Len(r0)
                  /\ \A n \in 1..Len(r0) :
                        \A col \in DOMAIN r1[n] :
                            col \in DOMAIN r0[n] /\ r1[n][col] = r0[n][col]

\* ------------------------------------------------------------------------
\* Properties of the tokenizer of sqliteParseDDL
\* ------------------------------------------------------------------------

\* the state of the tokenizer after it has read positions 1..k of a body
TokenizerAt(body, k) ==
    Scan("parse", body, 1, k,
         [bracketLevel |-> 0, quote |-> Nil, buf |-> << >>, fields |-> << >>,
          err |-> FALSE, skip |-> FALSE])

\* the positions of a body where the tokenizer reads a quote character that
\* is followed by the same character
EscapedAt(body) ==
    { i \in 1..(Len(body) - 1) :
          /\ body[i] \in StringQuotes
          /\ body[i + 1] = body[i]
          /\ With(TokenizerAt(body, i - 1), LAMBDA t : ~t.err /\ ~t.skip) }

\* the number of quote characters in the clauses of a document
QuotesKept(fields) ==
    Cardinality({ p \in UNION { { <<j, i>> : i \in 1..Len(fields[j]) } : j \in 1..Len(fields) } :
                      fields[p[1]][p[2]] \in StringQuotes })

\* C24: a quote character followed by the same quote character is read as two
\* literal characters: after the pair the open quote, the bracket level and
\* the finished clauses are what they were before it, the clause being read
\* has grown by the two characters, and a document that is returned holds
\* every quote character of the body
C24_DoubledQuoteLiteral ==
    doc.done =>
        With(BodyOf(ddl), LAMBDA body :
            /\ \A i \in EscapedAt(body) :
                  With(TokenizerAt(body, i - 1), LAMBDA t0 :
                  With(TokenizerAt(body, i + 1), LAMBDA t1 :
                      /\ t1.quote = t0.quote
                      /\ t1.bracketLevel = t0.bracketLevel
                      /\ t1.fields = t0.fields
                      /\ t1.buf = t0.buf \o <<body[i], body[i]>>
                      /\ ~t1.err /\ ~t1.skip))
            /\ ~doc.err =>
                  QuotesKept(doc.fields)
                      = Cardinality({ i \in 1..Len(body) : body[i] \in StringQuotes }))

\* C24, its case: a default value 'x'',y' has been parsed: the doubled quote
\* stands inside the quoted value, the comma after it is still quoted, and
\* the clause holds both quote characters
C24_EscapedInsideValue ==
    /\ doc.done /\ ~doc.err
    /\ \E q \in TokenQuotes, cons \in TokenConstraints :
          ddl = TokenText(q, <<"'","x","'","'",",","y","'">>, cons)
    /\ EscapedAt(BodyOf(ddl)) # {}
    /\ \A i \in EscapedAt(BodyOf(ddl)) : TokenizerAt(BodyOf(ddl), i - 1).quote = "'"
    /\ Len(doc.fields) = 3
    /\ HasSuffix(doc.fields[2], <<"'","x","'","'",",","y","'">>)

\* the clauses SQL reads in a body, without the empty clause after a last
\* comma
SqlClauses(body) ==
    With(dbSplit(body).clauses, LAMBDA cl :
        IF cl[Len(cl)] = << >> THEN SubSeq(cl, 1, Len(cl) - 1) ELSE cl)

\* the kinds of quote character a body holds
QuoteKinds(body) == { body[i] : i \in { j \in 1..Len(body) : body[j] \in StringQuotes } }

\* C25: a comma ends a clause exactly when the bracket level is 0 and no
\* quote is open where it stands; a bracket changes the level, by one,
\* exactly when no quote is open where it stands; so a body that is accepted
\* and has one kind of quote character at most, with every quote closed, is
\* split at its commas outside brackets and quotes and nowhere else
C25_SeparatorRule ==
    doc.done =>
        With(BodyOf(ddl), LAMBDA body :
            /\ \A i \in 1..Len(body) :
                  With(TokenizerAt(body, i - 1), LAMBDA t0 :
                  With(TokenizerAt(body, i), LAMBDA t1 :
                      (~t0.err /\ ~t0.skip) =>
                          /\ Len(t1.fields) = Len(t0.fields) + 1
                                <=> (body[i] = "," /\ t0.bracketLevel = 0 /\ t0.quote = Nil)
                          /\ Len(t1.fields) # Len(t0.fields) + 1 => t1.fields = t0.fields
                          /\ t1.bracketLevel =
                                IF t0.quote = Nil /\ body[i] = "(" THEN t0.bracketLevel + 1
                                ELSE IF t0.quote = Nil /\ body[i] = ")" THEN t0.bracketLevel - 1
                                ELSE t0.bracketLevel))
            /\ (~doc.err /\ Cardinality(QuoteKinds(body)) <= 1 /\ ~dbSplit(body).err)
                  => doc.fields = SqlClauses(body))

\* C25, its case: a text has been parsed that holds a bracket and a comma
\* inside a quoted value and a comma inside brackets: it has 3 clauses, the
\* quoted value is whole in the second and the bracketed list in the third
C25_BracketsAndQuotes ==
    /\ doc.done /\ ~doc.err
    /\ ddl = TokenText(<<BT>>, <<"'","(","x",",","y","'">>,
                       <<"P","R","I","M","A","R","Y"," ","K","E","Y"," ","(",BT,"a",BT,",",BT,"b",BT,")">>)
    /\ Len(doc.fields) = 3
    /\ HasSuffix(doc.fields[2], <<"'","(","x",",","y","'">>)
    /\ HasSuffix(doc.fields[3], <<"(",BT,"a",BT,",",BT,"b",BT,")">>)

\* C26: a quoted region is closed only by the quote character that opened
\* it: a body that is accepted, and whose quotes and brackets are balanced
\* as SQL reads them, is split at the commas that stand outside SQL's quoted
\* regions and brackets, so not at a comma between an inner quote character
\* of another kind and the closing quote
C26_ClosedBySameQuote ==
    (doc.done /\ ~doc.err /\ ~dbSplit(BodyOf(ddl)).err)
        => doc.fields = SqlClauses(BodyOf(ddl))

\* C27: for every text sqliteParseDDL accepts, the text compile writes for
\* the document is accepted too and parses to the same header and the same
\* clauses in the same order; for a document without clauses compile writes
\* the header alone
C27_RoundTrip ==
    doc.again.done =>
        /\ ~doc.again.err
        /\ doc.again.head = doc.head
        /\ doc.again.fields = doc.fields
        /\ doc.fields = << >> => doc.again.text = doc.head

\* ------------------------------------------------------------------------
\* Properties of the binding of a JSON column behind a pointer
\* ------------------------------------------------------------------------

\* the JSON cell of a row gives nothing to decode: it is NULL, or its bytes
\* cannot be decoded
NothingDecoded(row) == row.null \/ ~row.decodable

\* C28: the value behind a nil pointer field of a JSON column is allocated
\* only when the cell is decoded: after a row whose JSON cell is NULL, or
\* holds bytes that cannot be decoded, has been bound into a record, the
\* pointer field of the record is still nil
C28_AllocatedOnDecode ==
    (out.op \in {"Row", "Rows"} /\ out.before.mode = "struct" /\ out.err = Nil)
    => IF out.op = "Row"
       THEN (Len(out.p.rows) > 0 /\ NothingDecoded(out.p.rows[1]))
                => out.dst.value.ref = NilPtr
       ELSE \A i \in 1..Len(out.dst.value) :
                (out.p.rows[i].scannable /\ NothingDecoded(out.p.rows[i]))
                    => out.dst.value[i].ref = NilPtr

\* ------------------------------------------------------------------------
\* Properties of the statements ExecRows finds in a script
\* ------------------------------------------------------------------------

\* the first word of a line: the text before its first space, the whole line
\* when it has no space
FirstWord(line) ==
    IF Index(line, " ") < 0 THEN line ELSE SubSeq(line, 1, Index(line, " "))

\* a line that is neither empty nor a comment
IsContent(line) == Len(line) > 0 /\ ~HasPrefix(line, <<"-","-"," ">>)

\* a line a statement begins on
IsStart(line) == IsContent(line) /\ FirstWord(line) \in StatementWords

\* a line a statement ends on
IsEnd(line) == IsContent(line) /\ HasSuffix(TrimSpace(line), <<";">>)

\* the text of the statement on lines i..j: the first line, then the other
\* lines that are neither empty nor comments, each after one space
RECURSIVE StatementText(_, _, _)
StatementText(lines, i, j) ==
    IF j = i THEN lines[i]
    ELSE IF IsContent(lines[j])
    THEN StatementText(lines, i, j - 1) \o <<" ">> \o TrimSpace(lines[j])
    ELSE StatementText(lines, i, j - 1)

\* the statements of a script from line i on, line i standing outside a
\* statement: a statement begins on the first line from there whose first
\* word is a statement word and ends on the first line from there that ends
\* with ";"; a statement that never ends is no statement
RECURSIVE StatementsFrom(_, _)
StatementsFrom(lines, i) ==
    IF i > Len(lines) THEN << >>
    ELSE IF ~IsStart(lines[i]) THEN StatementsFrom(lines, i + 1)
    ELSE With({ j \in i..Len(lines) : IsEnd(lines[j]) }, LAMBDA ends :
           IF ends = {} THEN << >>
           ELSE With(CHOOSE j \in ends : \A k \in ends : j <= k, LAMBDA j :
                  <<StatementText(lines, i, j)>> \o StatementsFrom(lines, j + 1)))

\* C29: the statements ExecRows finds are the statements of the script, each
\* once and in order: every statement that begins on a line whose first word
\* is SET, CREATE, INSERT or DROP and ends with ";", on that line or a later
\* one; empty lines, comment lines and lines with another first word outside
\* a statement are in none of them.  When no statement fails each is
\* executed once, in that order.
C29_StatementsFound ==
    (run.done /\ run.began) =>
        /\ run.cmds = StatementsFrom(SplitLines(script), 1)
        /\ run.failed = 0 => run.executed = run.cmds

\* ------------------------------------------------------------------------
\* Properties of the release of the cursor
\* ------------------------------------------------------------------------

KwPrimaryKey == <<"P","R","I","M","A","R","Y"," ","K","E","Y">>

\* the number of places of a text where PRIMARY KEY stands, in any case
PrimaryKeyCount(text) ==
    Cardinality({ i \in 1..Len(text) : MatchesAt(ToUpper(text), i, KwPrimaryKey) })

\* C31: the CREATE TABLE statement CreateTable hands to Exec declares a
\* primary key once at most: it never holds an inline PRIMARY KEY
\* AUTOINCREMENT column type together with a table-level PRIMARY KEY (...)
\* clause, nor two of either
C31_PrimaryKeyOnce ==
    \A k \in 1..Len(hist) :
        hist[k].op = "CreateTable"
        => \A i \in 1..Len(hist[k].log) :
              hist[k].log[i].stmt.kind = "CREATE TABLE"
              => PrimaryKeyCount(hist[k].log[i].stmt.a1) <= 1

\* ---------------------------------------------------------------------------
\* The process (src/proc/proc.go): hooks, Start, the signal loop, stop, reload
\* ---------------------------------------------------------------------------

\* the bounds of a behaviour of the process: the hooks registered, the direct
\* calls of Stop, the signals delivered, the goroutines the wait group counts
MaxHooks == 2

MaxStops == 1

MaxSignals == 2

MaxWorkers == 1

\* the actions a hook is registered for
HookNums == {"start", "reload", "stop"}

\* the priorities a hook is registered with: <<Priority, SubPriority>>
Priorities == {<<1, 1>>, <<2, 0>>}

\* a HookOps as the caller of RegisterHooks writes it; Owner tells the hooks
\* apart, priority is set by RegisterHooks
HookOps(Owner, HookNum, Priority, SubPriority) ==
    [Owner |-> Owner, HookNum |-> HookNum, Priority |-> Priority,
     SubPriority |-> SubPriority, priority |-> 0]

\* ProcessPriority(uint32(v.Priority)<<(16-3) + uint32(v.SubPriority)): the
\* shift binds before the sum; both operands are 16 bits wide, so the 32 bits
\* of the sum never wrap
priorityOf(v) == v.Priority * 2^(16-3) + v.SubPriority

\* RegisterHooks: every hook of in, in order, gets its priority and is
\* appended to the hooks of its action
RECURSIVE RegisterHooks(_, _)
RegisterHooks(ops, in) ==
    IF in = << >> THEN ops
    ELSE With([Head(in) EXCEPT !.priority = priorityOf(Head(in))], LAMBDA v :
             RegisterHooks([ops EXCEPT ![v.HookNum] = Append(@, v)], Tail(in)))

\* a comparison that puts equal priorities in either order
lessOrEqual(a, b) == a.priority <= b.priority

\* the comparison init hands to sort.SliceStable
less(a, b) == a.priority < b.priority

\* v inserted into the sorted x behind every element that is not greater
RECURSIVE insertStable(_, _)
insertStable(x, v) ==
    IF x = << >> THEN <<v>>
    ELSE IF less(v, x[1]) THEN <<v>> \o x
    ELSE <<x[1]>> \o insertStable(Tail(x), v)

\* sort.SliceStable(x, less): the elements of x by less, equal elements in the
\* order they have in x
RECURSIVE SliceStable(_)
SliceStable(x) ==
    IF x = << >> THEN << >>
    ELSE insertStable(SliceStable(SubSeq(x, 1, Len(x) - 1)), x[Len(x)])

\* the errors of the process: what a hook returns, what start and stop make
\* of it with fmt.Errorf, what configer.New returns, what stop returns when
\* the wait group has not drained in time
HookErr == "hook failed"

ConfigerErr == "configer failed"

TimeoutErr == "closed after timeout 12s"

Errorf(err) == "Owner.Hook() err: hook failed"

\* a loop over the hooks x in which the failing-th hook returns an error
\* (0: none does): the hooks dispatched, each with what it returned
Dispatch(x, failing, by) ==
    [k \in 1..(IF failing = 0 THEN Len(x) ELSE failing) |->
        [hook |-> x[k], by |-> by, err |-> IF k = failing THEN HookErr ELSE Nil]]

\* Process.init: nothing when done before; the configer is made, which may
\* fail; the status is PENDING and the hooks of every action are sorted.
\* The result is [proc, hookOps, err].
init(p, ops, configerFails) ==
    IF p.initDone THEN [proc |-> p, hookOps |-> ops, err |-> Nil]
    ELSE IF configerFails THEN [proc |-> p, hookOps |-> ops, err |-> ConfigerErr]
    ELSE [proc |-> [p EXCEPT !.status = "PENDING", !.initDone = TRUE],
          hookOps |-> [a \in HookNums |-> SliceStable(ops[a])],
          err |-> Nil]

\* a start that takes no notice of what a hook returns
startKeepsGoing(p, ops, failing) ==
    [proc |-> [p EXCEPT !.status = "RUNNING"],
     log |-> [k \in 1..Len(ops["start"]) |->
                 [hook |-> ops["start"][k], by |-> 0,
                  err |-> IF k = failing THEN HookErr ELSE Nil]],
     err |-> Nil]

\* Process.start: the start hooks in the order of the slice; the first error
\* is returned, else the status is RUNNING. The result is [proc, log, err].
start(p, ops, failing) ==
    [proc |-> IF failing = 0 THEN [p EXCEPT !.status = "RUNNING"] ELSE p,
     log |-> Dispatch(ops["start"], failing, 0),
     err |-> IF failing = 0 THEN Nil ELSE Errorf(HookErr)]

\* the hooks a caller hands to RegisterHooks in one call: one or two, the
\* owners numbered on from the n hooks registered before
HookLists(n) ==
    { <<HookOps(n + 1, a, pri[1], pri[2])>> : a \in HookNums, pri \in Priorities }
    \cup { <<HookOps(n + 1, a, 1, 0), HookOps(n + 2, a, 1, 0)>> : a \in HookNums }

Registered == Len(hookOps["start"]) + Len(hookOps["reload"]) + Len(hookOps["stop"])

\* the process is over: os.Exit has run
Exited == main.pc = "exited"

\* RegisterHooks, called by the init functions of the modules, before Start
RegisterHooksCall ==
    /\ main.pc = "idle"
    /\ \E in \in HookLists(Registered) :
        /\ Registered + Len(in) <= MaxHooks
        /\ hookOps' = RegisterHooks(hookOps, in)
    /\ UNCHANGED <<proc, main, stops, dispatched>>
    /\ UNCHANGED dbVars

\* Process.Start up to the signal loop: init, then nothing more on a dry run,
\* else start; the goroutines the start hooks launched are in the wait group
StartCall ==
    /\ main.pc = "idle"
    /\ \E configerFails \in BOOLEAN, dryrun \in BOOLEAN,
          failing \in 0..Len(hookOps["start"]), workers \in 0..MaxWorkers :
        With(init(proc, hookOps, configerFails), LAMBDA i :
            IF i.err # Nil
            THEN /\ ~dryrun /\ failing = 0 /\ workers = 0
                 /\ main' = [main EXCEPT !.pc = "returned", !.ret = i.err]
                 /\ proc' = i.proc /\ hookOps' = i.hookOps
                 /\ dispatched' = dispatched
            ELSE IF dryrun
            THEN /\ failing = 0 /\ workers = 0
                 /\ main' = [main EXCEPT !.pc = "returned", !.ret = Nil]
                 /\ proc' = i.proc /\ hookOps' = i.hookOps
                 /\ dispatched' = dispatched
            ELSE With(start(i.proc, i.hookOps, failing), LAMBDA s :
                 /\ (s.err # Nil => workers = 0)
                 /\ main' = IF s.err # Nil
                            THEN [main EXCEPT !.pc = "returned", !.ret = s.err]
                            ELSE [main EXCEPT !.pc = "loop"]
                 /\ proc' = [s.proc EXCEPT !.wg = workers]
                 /\ hookOps' = i.hookOps
                 /\ dispatched' = dispatched \o s.log))
    /\ UNCHANGED stops
    /\ UNCHANGED dbVars

\* a reload that sets the status whatever the hooks return and leaves the
\* stored error alone
reloadKeepsError(p, ops, configerFails, failing) ==
    [proc |-> [p EXCEPT !.status = "RUNNING", !.err = IF failing = 0 THEN @ ELSE HookErr],
     log |-> Dispatch(ops["reload"], failing, 0),
     err |-> IF failing = 0 THEN Nil ELSE HookErr]

\* Process.reload after the status is set: the configer is made again, which
\* may fail; the reload hooks in the order of the slice; the first error is
\* stored and returned, else the status is RUNNING and the stored error is
\* cleared. The result is [proc, log, err].
reload(p, ops, configerFails, failing) ==
    IF configerFails
    THEN [proc |-> [p EXCEPT !.err = ConfigerErr], log |-> << >>, err |-> ConfigerErr]
    ELSE IF failing # 0
    THEN [proc |-> [p EXCEPT !.err = HookErr],
          log |-> Dispatch(ops["reload"], failing, 0), err |-> HookErr]
    ELSE [proc |-> [p EXCEPT !.status = "RUNNING", !.err = Nil],
          log |-> Dispatch(ops["reload"], 0, 0), err |-> Nil]

\* an invocation of stop: who called it, where it stands, the stop hook it
\* dispatches next, what it returned, and the goroutine it started to wait
\* for the wait group ("none", "waiting" in wg.Wait, "sending" on wgCh, "done")
Stopping(caller) ==
    [caller |-> caller, pc |-> "enter", i |-> 0, ret |-> Nil, waiter |-> "none"]

\* the signal loop takes a shutdown signal: the second one exits the
\* process, the first starts a goroutine that runs stop
LoopShutdown ==
    /\ main.pc = "loop" /\ main.sigs < MaxSignals
    /\ IF main.shutdown
       THEN /\ main' = [main EXCEPT !.pc = "exited", !.sigs = @ + 1]
            /\ stops' = stops
       ELSE /\ main' = [main EXCEPT !.shutdown = TRUE, !.sigs = @ + 1]
            /\ stops' = Append(stops, Stopping("signal"))
    /\ UNCHANGED <<hookOps, proc, dispatched>>
    /\ UNCHANGED dbVars

\* the signal loop takes a reload signal: reload sets the status
LoopReload ==
    /\ main.pc = "loop" /\ main.sigs < MaxSignals
    /\ main' = [main EXCEPT !.pc = "reload", !.sigs = @ + 1]
    /\ proc' = [proc EXCEPT !.status = "RELOADING"]
    /\ UNCHANGED <<hookOps, stops, dispatched>>
    /\ UNCHANGED dbVars

\* the rest of reload, and the loop after it: an error of reload is returned
ReloadRun ==
    /\ main.pc = "reload"
    /\ \E configerFails \in BOOLEAN, failing \in 0..Len(hookOps["reload"]) :
        /\ (configerFails => failing = 0)
        /\ With(reload(proc, hookOps, configerFails, failing), LAMBDA r :
            /\ proc' = r.proc
            /\ dispatched' = dispatched \o r.log
            /\ main' = IF r.err # Nil
                       THEN [main EXCEPT !.pc = "returned", !.ret = r.err]
                       ELSE [main EXCEPT !.pc = "loop"])
    /\ UNCHANGED <<hookOps, stops>>
    /\ UNCHANGED dbVars

\* the signal loop finds the context cancelled and returns the stored error
LoopDone ==
    /\ main.pc = "loop" /\ proc.done
    /\ main' = [main EXCEPT !.pc = "returned", !.ret = proc.err]
    /\ UNCHANGED <<hookOps, proc, stops, dispatched>>
    /\ UNCHANGED dbVars

\* Stop, called by a goroutine of the started process
DirectStops == { k \in 1..Len(stops) : stops[k].caller = "direct" }

StopCall ==
    /\ proc.initDone /\ ~Exited
    /\ Cardinality(DirectStops) < MaxStops
    /\ stops' = Append(stops, Stopping("direct"))
    /\ UNCHANGED <<hookOps, proc, main, dispatched>>
    /\ UNCHANGED dbVars

\* stop looks at the context: cancelled, it returns nil; else it starts the
\* goroutine that waits for the wait group and turns to the last stop hook
stopEnter(t, p, ops) ==
    IF p.done THEN [t EXCEPT !.pc = "done", !.ret = Nil]
    ELSE [t EXCEPT !.pc = "hooks", !.i = Len(ops["stop"]), !.waiter = "waiting"]

StopEnter(k) ==
    /\ ~Exited /\ stops[k].pc = "enter"
    /\ stops' = [stops EXCEPT ![k] = stopEnter(stops[k], proc, hookOps)]
    /\ UNCHANGED <<hookOps, proc, main, dispatched>>
    /\ UNCHANGED dbVars

\* a stop that stores the error of a hook and goes on to the hook before
stopHookKeepsGoing(t, p, ops, err) ==
    [t |-> [t EXCEPT !.i = @ - 1], proc |-> [p EXCEPT !.err = IF err # Nil THEN Errorf(err) ELSE @]]

\* stop after a stop hook returned err: an error is stored and returned,
\* else stop turns to the hook before. The result is [t, proc].
stopHook(t, p, ops, err) ==
    IF err # Nil
    THEN [t |-> [t EXCEPT !.pc = "done", !.ret = Errorf(err)],
          proc |-> [p EXCEPT !.err = Errorf(err)]]
    ELSE [t |-> [t EXCEPT !.i = @ - 1], proc |-> p]

StopHook(k) ==
    /\ ~Exited /\ stops[k].pc = "hooks" /\ stops[k].i > 0
    /\ \E err \in {Nil, HookErr} :
        With(stopHook(stops[k], proc, hookOps, err), LAMBDA r :
            /\ stops' = [stops EXCEPT ![k] = r.t]
            /\ proc' = r.proc
            /\ dispatched' = Append(dispatched,
                   [hook |-> hookOps["stop"][stops[k].i], by |-> k, err |-> err]))
    /\ UNCHANGED <<hookOps, main>>
    /\ UNCHANGED dbVars

\* every stop hook has returned nil: the status is EXIT
StopExit(k) ==
    /\ ~Exited /\ stops[k].pc = "hooks" /\ stops[k].i = 0
    /\ stops' = [stops EXCEPT ![k].pc = "wait"]
    /\ proc' = [proc EXCEPT !.status = "EXIT"]
    /\ UNCHANGED <<hookOps, main, dispatched>>
    /\ UNCHANGED dbVars

\* the select at the end of stop, then cancel and return: the goroutine of
\* this stop sends on wgCh and stop receives, or the timeout passes with
\* nothing sent and the timeout error is stored. The timeout passes only
\* while the wait group has not drained: the goroutine back from wg.Wait
\* sends at once. The result is [t, proc].
stopWait(t, p, timeout) ==
    With(IF timeout THEN [p EXCEPT !.err = TimeoutErr] ELSE p, LAMBDA q :
        [t |-> [t EXCEPT !.pc = "done", !.ret = q.err,
                         !.waiter = IF timeout THEN @ ELSE "done"],
         proc |-> [q EXCEPT !.done = TRUE]])

StopWait(k) ==
    /\ ~Exited /\ stops[k].pc = "wait"
    /\ (stops[k].waiter = "sending" \/ proc.wg > 0)
    /\ With(stopWait(stops[k], proc, stops[k].waiter # "sending"), LAMBDA r :
            /\ stops' = [stops EXCEPT ![k] = r.t]
            /\ proc' = r.proc)
    /\ UNCHANGED <<hookOps, main, dispatched>>
    /\ UNCHANGED dbVars

\* the goroutine of a stop comes back from wg.Wait and turns to its send
WaiterWake(k) ==
    /\ ~Exited /\ stops[k].waiter = "waiting" /\ proc.wg = 0
    /\ stops' = [stops EXCEPT ![k].waiter = "sending"]
    /\ UNCHANGED <<hookOps, proc, main, dispatched>>
    /\ UNCHANGED dbVars

\* a goroutine the wait group counts ends
WgDone ==
    /\ ~Exited /\ proc.wg > 0
    /\ proc' = [proc EXCEPT !.wg = @ - 1]
    /\ UNCHANGED <<hookOps, main, stops, dispatched>>
    /\ UNCHANGED dbVars

InitProc ==
    /\ db = NoDB /\ sample = SampleA /\ conf = NewDefaultDBOptions
    /\ lengthKnown = FALSE /\ hist = << >> /\ rs = NoRows /\ out = NoOut
    /\ ddl = NoText /\ doc = NoDoc /\ script = << >> /\ run = NoRun
    /\ dbFactories = NoFactories /\ registered = NoRegister
    /\ given = NoGiven /\ returned = NoReturn
    /\ NoProcess

StopStep == \E k \in 1..Len(stops) : StopEnter(k) \/ StopHook(k) \/ StopExit(k) \/ StopWait(k)

WaiterStep == \E k \in 1..Len(stops) : WaiterWake(k)

NextProc ==
    \/ RegisterHooksCall
    \/ StartCall
    \/ LoopShutdown
    \/ LoopReload
    \/ ReloadRun
    \/ LoopDone
    \/ StopCall
    \/ StopStep
    \/ WaiterStep
    \/ WgDone

SpecProc == InitProc /\ [][NextProc]_vars

\* ---------------------------------------------------------------------------
\* Claims about the process
\* ---------------------------------------------------------------------------

\* the hooks of one action dispatched so far, in the order of dispatch
Log(a) == SelectSeq(dispatched, LAMBDA e : e.hook.HookNum = a)

\* hook a comes before hook b in the sorted order: by priority, hooks of one
\* priority in the order of registration (the owners are numbered in it)
Before(a, b) ==
    \/ a.priority < b.priority
    \/ a.priority = b.priority /\ a.Owner < b.Owner

\* the entries of log are in the sorted order
Ascending(log) ==
    \A i, j \in 1..Len(log) : i < j => Before(log[i].hook, log[j].hook)

\* the entries of log whose hook returned an error
FailedAt(log) == { i \in 1..Len(log) : log[i].err # Nil }

\* C32: the start hooks are dispatched in non-decreasing order of priority,
\* hooks of equal priority in the order of registration, and all of them when
\* none fails; a start hook that returns an error is the last one dispatched,
\* the status is never RUNNING afterwards, and Start has returned an error
\* without taking a signal.
C32_StartInOrder ==
    /\ Ascending(Log("start"))
    /\ FailedAt(Log("start")) \subseteq {Len(Log("start"))}
    /\ (Log("start") # << >> /\ FailedAt(Log("start")) = {}
           => Len(Log("start")) = Len(hookOps["start"]))
    /\ (FailedAt(Log("start")) # {}
           => /\ proc.status # "RUNNING"
              /\ main.pc = "returned" /\ main.ret # Nil /\ main.sigs = 0)

\* C32 witness: of two start hooks the one registered last is dispatched
\* first and fails, and the other is not dispatched
C32_SecondRegisteredFails ==
    /\ Len(hookOps["start"]) = 2
    /\ Len(Log("start")) = 1
    /\ Log("start")[1].hook.Owner = 2
    /\ Log("start")[1].err # Nil
    /\ main.pc = "returned"

\* the stop hooks the k-th invocation of stop has dispatched, in order
StopLog(k) == SelectSeq(dispatched, LAMBDA e : e.by = k)

\* the hooks in the entries of log
HooksOf(log) == { log[i].hook : i \in 1..Len(log) }

\* the entries of log are in the reverse of the sorted order, and no stop
\* hook left out comes behind one of them in the sorted order
Descending(log) ==
    /\ \A i, j \in 1..Len(log) : i < j => Before(log[j].hook, log[i].hook)
    /\ \A h \in Range(hookOps["stop"]) \ HooksOf(log) :
           \A i \in 1..Len(log) : Before(h, log[i].hook)

\* the k-th invocation of stop has dispatched every stop hook, and each
\* returned nil
AllStopped(k) ==
    /\ HooksOf(StopLog(k)) = Range(hookOps["stop"])
    /\ FailedAt(StopLog(k)) = {}

\* C33: an invocation of stop dispatches the stop hooks in the reverse of
\* the sorted order, the greatest priority first and hooks of equal priority
\* in the reverse of the order of registration; the status is EXIT only when
\* some invocation has had nil from every stop hook.
C33_StopInReverse ==
    /\ \A k \in 1..Len(stops) : Descending(StopLog(k))
    /\ (proc.status = "EXIT" => \E k \in 1..Len(stops) : AllStopped(k))

\* C33 witness: of two stop hooks of one priority the one registered last
\* was dispatched first, both returned nil and the status is EXIT
C33_EqualPriorityReversed ==
    \E k \in 1..Len(stops) :
        /\ Len(StopLog(k)) = 2
        /\ StopLog(k)[1].hook.Owner = 2 /\ StopLog(k)[2].hook.Owner = 1
        /\ StopLog(k)[1].hook.priority = StopLog(k)[2].hook.priority
        /\ AllStopped(k)
        /\ proc.status = "EXIT"

\* the k-th invocation of stop has had an error from a stop hook
StopFailed(k) == FailedAt(StopLog(k)) # {}

\* C34: when a stop hook returns an error to an invocation of stop, the
\* invocation returns an error at once: the step leaves the status, the
\* context and the signal loop as they are, the failed hook is the last the
\* invocation dispatches, and the invocation takes no step afterwards.
C34_FailedStopReturns ==
    [][\A k \in 1..Len(stops) :
          StopFailed(k)' =>
              /\ stops'[k].pc = "done" /\ stops'[k].ret # Nil
              /\ FailedAt(StopLog(k))' = {Len(StopLog(k)')}
              /\ IF StopFailed(k)
                 THEN /\ stops'[k].ret = stops[k].ret /\ stops'[k].i = stops[k].i
                      /\ StopLog(k)' = StopLog(k)
                 ELSE /\ proc'.status = proc.status
                      /\ proc'.done = proc.done
                      /\ main' = main]_vars

\* C34 witness: the stop started by the shutdown signal had an error from
\* the first of two stop hooks and has returned; the process is running,
\* its context is not cancelled and the signal loop goes on
C34_FirstStopHookFailed ==
    \E k \in 1..Len(stops) :
        /\ stops[k].caller = "signal"
        /\ Len(hookOps["stop"]) = 2
        /\ Len(StopLog(k)) = 1 /\ StopFailed(k)
        /\ stops[k].pc = "done"
        /\ proc.status = "RUNNING" /\ ~proc.done
        /\ main.pc = "loop"

\* the dispatches of the stop hook h by the invocations of stop
StopsOf(h) == { i \in 1..Len(dispatched) : dispatched[i].by > 0 /\ dispatched[i].hook = h }

\* C36: every stop hook is dispatched at most once in the life of the
\* process, whatever invocations of stop there are and however they overlap.
C36_StopHookOnce ==
    \A h \in Range(hookOps["stop"]) : Cardinality(StopsOf(h)) <= 1

\* C36: an invocation of stop that finds the context cancelled returns nil
\* and dispatches no hook.
C36_NothingAfterCancel ==
    [][\A k \in 1..Len(stops) :
          proc.done /\ stops[k].pc = "enter" /\ stops'[k] # stops[k]
              => /\ stops'[k].pc = "done" /\ stops'[k].ret = Nil
                 /\ dispatched' = dispatched]_vars

\* the hooks dispatched in a step
NewLog == SubSeq(dispatched', Len(dispatched) + 1, Len(dispatched'))

\* the step in which the signal loop takes a reload signal
ReloadBegins == main.pc = "loop" /\ main'.pc = "reload"

\* the step in which reload returns to the signal loop
ReloadReturns == main.pc = "reload" /\ main'.pc # "reload"

\* the step dispatches reload hooks only, in the sorted order, and no
\* reload hook left out comes before one of them in the sorted order
ReloadAscending ==
    /\ \A i \in 1..Len(NewLog) : NewLog[i].hook.HookNum = "reload"
    /\ Ascending(NewLog)
    /\ \A h \in Range(hookOps["reload"]) \ HooksOf(NewLog) :
           \A i \in 1..Len(NewLog) : Before(NewLog[i].hook, h)

\* every reload hook is dispatched in the step and returns nil
AllReloaded ==
    /\ HooksOf(NewLog) = Range(hookOps["reload"])
    /\ FailedAt(NewLog) = {}

\* after the step the status is RUNNING, no error is stored and the signal
\* loop goes on
ReloadedRunning ==
    proc'.status = "RUNNING" /\ proc'.err = Nil /\ main'.pc = "loop"

\* the step leaves the status as reload set it: RELOADING, or what an
\* invocation of stop that had nil from every stop hook has made of it since
StatusLeft ==
    /\ proc'.status = proc.status
    /\ proc.status # "RELOADING" => \E k \in 1..Len(stops) : AllStopped(k)

\* a reload hook fails in the step: it is the last one dispatched, the signal
\* loop returns its error and the status is left as it is
ReloadHookFailed ==
    FailedAt(NewLog) # {} =>
        /\ FailedAt(NewLog) = {Len(NewLog)}
        /\ main'.pc = "returned" /\ main'.ret = NewLog[Len(NewLog)].err
        /\ StatusLeft

\* the configer could not be made again in the step: no hook is dispatched,
\* the signal loop returns the error of the configer, which is stored, and
\* the status stays RELOADING
ConfigerFailed == main'.pc = "returned" /\ main'.ret = ConfigerErr

ReloadWithoutConfiger ==
    /\ NewLog = << >>
    /\ proc'.err = ConfigerErr
    /\ StatusLeft

MaxInvocations == MaxStops + 1

\* a step of the k-th invocation of stop, and of the goroutine it started
StopStepOf(k) ==
    /\ k \in 1..Len(stops)
    /\ (StopEnter(k) \/ StopHook(k) \/ StopExit(k) \/ StopWait(k))

WaiterStepOf(k) == k \in 1..Len(stops) /\ WaiterWake(k)

\* the Go scheduler runs every goroutine that can run: an invocation of stop
\* goes on (its hooks return, its timer fires when nothing is sent), the
\* goroutine back from wg.Wait goes on to its send, reload goes on, and the
\* select of the signal loop takes a cancelled context. The goroutines of
\* the wait group end at last, though not always before the timeout.
\* Nothing makes a signal arrive or Stop be called.
Fairness ==
    /\ \A k \in 1..MaxInvocations : WF_vars(StopStepOf(k)) /\ WF_vars(WaiterStepOf(k))
    /\ WF_vars(ReloadRun)
    /\ WF_vars(LoopDone)
    /\ WF_vars(WgDone)

SpecProcLive == InitProc /\ [][NextProc]_vars /\ Fairness

\* the invocation of stop started by the shutdown signal has had nil from
\* every stop hook and stands at its select
SignalStopWaits(k) ==
    /\ k \in 1..Len(stops)
    /\ stops[k].caller = "signal" /\ stops[k].pc = "wait"

\* the goroutine the k-th invocation started has ended
WaiterEnded(k) == k \in 1..Len(stops) /\ stops[k].waiter = "done"

\* C35: after a shutdown signal whose stop has had nil from every stop hook,
\* the context is cancelled and the signal loop leaves (it returns, unless a
\* second shutdown signal has ended the process before).
C35_LoopReturns ==
    \A k \in 1..MaxInvocations :
        SignalStopWaits(k) ~> ((proc.done /\ main.pc = "returned") \/ Exited)

\* C35: after a shutdown signal whose stop has had nil from every stop hook,
\* the goroutine that waits for the wait group ends, whether the wait group
\* drains before the timeout or after it (unless the process is ended
\* before).
C35_WaiterReleased ==
    \A k \in 1..MaxInvocations :
        SignalStopWaits(k) ~> (WaiterEnded(k) \/ Exited)

\* C35: the stop that ends its select cancels the context; when it received
\* from its goroutine (the wait group drained in time) it stores nothing and
\* returns the stored error, nil when none was stored before, else it stores
\* and returns the timeout error; the signal loop that finds the context
\* cancelled returns the stored error.
C35_ReturnedError ==
    [][/\ \A k \in 1..Len(stops) :
              stops[k].pc = "wait" /\ stops'[k].pc = "done" =>
                  /\ proc'.done
                  /\ stops'[k].ret = proc'.err
                  /\ proc'.err = IF stops'[k].waiter = "done" THEN proc.err ELSE TimeoutErr
       /\ main.pc = "loop" /\ main'.pc = "returned" => proc.done /\ main'.ret = proc.err]_vars

====
